---- MODULE Spec2Model ----
(***************************************************************************)
(* Model of the tool-augmented conversation orchestrator of codesenseai    *)
(* (src/lib/gemini.ts): truncateContent, makeGeminiApiCall,                *)
(* generateRepoSummary, provideFallbackSummary and getChatResponse.        *)
(*                                                                         *)
(* Strings are sequences of tokens.  A token is a TLA+ string: a single    *)
(* character where the code looks at characters (file contents, model      *)
(* text) and a whole literal where the code only concatenates it.          *)
(***************************************************************************)
EXTENDS Integers, Sequences, FiniteSets, TLC

VARIABLES
    kind,                 \* "summary" (generateRepoSummary) | "chat" (getChatResponse)
    apiKeySet,            \* process.env.GEMINI_API_KEY is a non-empty string
    repoData,             \* the repository metadata handed in by the caller
    userQuestion,         \* getChatResponse: userQuestion
    clientChatHistory,    \* getChatResponse: clientChatHistory
    pc,                   \* "start" | "call1" | "fetch" | "call2" | "done"
    conversationHistory,  \* the message log of the exchange
    currentAiContent,     \* the model message the answer is taken from
    functionCallParts,    \* the tool_call parts of the first model message
    partIdx,              \* index in functionCallParts of the part being resolved
    pathIdx,              \* index in its clamped filePaths of the fetch in flight
    fetchedFileResults,   \* per-path outcomes of the part being resolved
    toolResponses,        \* functionResponse parts built so far
    result,               \* the GeminiResponse returned to the caller
    apiCalls,             \* log: every makeGeminiApiCall issued, in order
    fetchLog,             \* log: every fetchFileContent issued, in order
    failure,              \* log: why the exchange failed, "none" if it did not
    caughtMessage,        \* log: message of the error the catch block caught
    exchanges,            \* number of calls made by the caller so far
    caughtSummaries,      \* log: earlier summary calls that ended in the catch block
    tcPc,                 \* truncation harness: "input" | "truncated" | "idle"
    tcContent,            \* argument content of truncateContent
    tcMaxLength,          \* argument maxLength of truncateContent
    tcResult,             \* value returned by truncateContent
    fetchOutcomes,        \* log: the branch each settled fetchFileContent returned by
    ffPc,                 \* fetch harness: "call" | "returned" | "idle"
    ffPath,               \* argument path of fetchFileContent
    ffEnv,                \* what GitHub answers to its requests
    ffResult,             \* value returned by fetchFileContent
    ffFileResult,         \* the entry the tool round records for that value
    cancelled,            \* the caller's request was aborted
    concurrent,           \* the exchanges running side by side, by number
    httpResponse,         \* chat route: the response POST answers with
    repository,           \* ChatWindow: the repository prop
    messages,             \* ChatWindow: the messages state
    newMessage,           \* ChatWindow: the newMessage state (the input)
    isBotTyping,          \* ChatWindow: the isBotTyping state
    requests,             \* ChatWindow: calls of handleSendMessage at their await
    sendCount,            \* log: sends accepted so far (stands for Date.now())
    lastEvent             \* log: what the last step of the window was

inputVars == <<kind, apiKeySet, repoData, userQuestion, clientChatHistory>>
loopVars == <<functionCallParts, partIdx, pathIdx, fetchedFileResults, toolResponses>>
chatVars == <<repository, messages, newMessage, isBotTyping, requests,
              sendCount, lastEvent>>
callerVars == <<exchanges, caughtSummaries, httpResponse, chatVars>>
tcVars == <<tcPc, tcContent, tcMaxLength, tcResult>>
ffVars == <<ffPc, ffPath, ffEnv, ffResult, ffFileResult>>

vars == <<kind, apiKeySet, repoData, userQuestion, clientChatHistory, pc,
          conversationHistory, currentAiContent, functionCallParts, partIdx,
          pathIdx, fetchedFileResults, toolResponses, result, apiCalls,
          fetchLog, failure, caughtMessage, exchanges, caughtSummaries,
          tcPc, tcContent, tcMaxLength, tcResult, fetchOutcomes,
          ffPc, ffPath, ffEnv, ffResult, ffFileResult, cancelled, concurrent,
          httpResponse, repository, messages, newMessage, isBotTyping,
          requests, sendCount, lastEvent>>

(***************************************************************************)
(* Bounds of the model.                                                    *)
(***************************************************************************)
MaxContentLen == 88     \* longest content handed to truncateContent alone
MaxNewlines == 1        \* most line breaks in such a content
MaxPaths == 4           \* longest filePaths list of a tool call
MaxExchanges == 2       \* calls the caller makes one after the other
MaxHistory == 22        \* longest prior history handed to getChatResponse alone
MaxConcurrent == 2      \* exchanges running side by side
MaxSends == 3           \* sends the ChatWindow accepts

(***************************************************************************)
(* Program constants (src/lib/gemini.ts lines 33-35).                      *)
(***************************************************************************)
MAX_FILES_TO_BROWSE == 3
MAX_FILE_CONTENT_LENGTH == 25000
MAX_CHAT_HISTORY_MESSAGES == 10

Min(a, b) == IF a <= b THEN a ELSE b
Max(a, b) == IF a >= b THEN a ELSE b

(***************************************************************************)
(* String.prototype.lastIndexOf(ch, fromIndex) for a one-character search  *)
(* string, 0-based: fromIndex is clamped to [0, length - 1]; -1 when ch    *)
(* does not occur at or before it.                                         *)
(***************************************************************************)
LastIndexOf(s, ch, fromIndex) ==
    LET p == Min(Max(fromIndex, 0), Len(s) - 1)
        hits == {i \in 0..p : s[i + 1] = ch}
    IN  IF hits = {} THEN -1 ELSE CHOOSE i \in hits : \A j \in hits : j <= i

(***************************************************************************)
(* String.prototype.substring(0, end) for end >= 0.                        *)
(***************************************************************************)
Substring0(s, end) == SubSeq(s, 1, Min(end, Len(s)))

(***************************************************************************)
(* "\n... (content truncated due to length) ..." : 42 characters.          *)
(***************************************************************************)
TRUNCATION_MESSAGE ==
    <<"\n", ".", ".", ".", " ", "(", "c", "o", "n", "t", "e", "n", "t", " ",
      "t", "r", "u", "n", "c", "a", "t", "e", "d", " ", "d", "u", "e", " ",
      "t", "o", " ", "l", "e", "n", "g", "t", "h", ")", " ", ".", ".", ".">>

\* the cut point taken at the last line break whatever its position
CutPoint_NoMidpoint(content, maxLength) ==
    LET found == LastIndexOf(content, "\n", maxLength - Len(TRUNCATION_MESSAGE))
    IN  IF found = -1
        THEN maxLength - Len(TRUNCATION_MESSAGE)
        ELSE found

\* The cut point chosen by truncateContent (lines 56-59).
CutPoint(content, maxLength) ==
    LET found == LastIndexOf(content, "\n", maxLength - Len(TRUNCATION_MESSAGE))
    IN  IF found = -1 \/ 2 * found < maxLength
        THEN maxLength - Len(TRUNCATION_MESSAGE)
        ELSE found

\* truncateContent without its first line, "if (content.length <= maxLength)
\* return content"
truncateContent_NoEarlyReturn(content, maxLength) ==
    Substring0(content, Max(0, CutPoint(content, maxLength)))
        \o TRUNCATION_MESSAGE

truncateContent(content, maxLength) ==
    IF Len(content) <= maxLength
    THEN content
    ELSE Substring0(content, Max(0, CutPoint(content, maxLength)))
            \o TRUNCATION_MESSAGE

(***************************************************************************)
(* Strings.                                                                *)
(***************************************************************************)
IsWhitespace(c) == c \in {" ", "\n", "\t"}

\* String.prototype.trim
RECURSIVE TrimStart(_)
TrimStart(s) ==
    IF s # <<>> /\ IsWhitespace(Head(s)) THEN TrimStart(Tail(s)) ELSE s

RECURSIVE TrimEnd(_)
TrimEnd(s) ==
    IF s # <<>> /\ IsWhitespace(s[Len(s)])
    THEN TrimEnd(SubSeq(s, 1, Len(s) - 1))
    ELSE s

Trim(s) == TrimEnd(TrimStart(s))

\* Array.prototype.join(sep) over an array of strings
RECURSIVE Join(_, _)
Join(strs, sep) ==
    IF strs = <<>> THEN <<>>
    ELSE IF Len(strs) = 1 THEN strs[1]
    ELSE strs[1] \o sep \o Join(Tail(strs), sep)

\* slice(-n) keeping the oldest n elements instead of the latest
SliceLast_Oldest(s, n) == SubSeq(s, 1, IF n <= Len(s) THEN n ELSE Len(s))

\* Array.prototype.slice(0, n) and Array.prototype.slice(-n), n > 0
SliceFirst(s, n) == SubSeq(s, 1, Min(n, Len(s)))
SliceLast(s, n) == SubSeq(s, Max(1, Len(s) - n + 1), Len(s))

\* the decimal digits of a non-negative number, as template literals print it
Digit(d) == <<"0", "1", "2", "3", "4", "5", "6", "7", "8", "9">>[d + 1]

RECURSIVE NumToStr(_)
NumToStr(n) ==
    IF n < 10 THEN <<Digit(n)>> ELSE NumToStr(n \div 10) \o <<Digit(n % 10)>>

\* a || b on strings: the empty string is falsy
OrElse(a, b) == IF a # <<>> THEN a ELSE b

(***************************************************************************)
(* Messages and parts (GeminiMessage, GeminiMessagePart).  A part carries  *)
(* at most one of text, functionCall and functionResponse; kind says which *)
(* and the other fields are empty.  hasFilePaths says whether              *)
(* functionCall.args.filePaths is present and an array.                    *)
(***************************************************************************)
TextPart(t) ==
    [kind |-> "text", text |-> t, name |-> "", hasFilePaths |-> FALSE,
     filePaths |-> <<>>, results |-> <<>>]

CallPart(name, hasFilePaths, filePaths) ==
    [kind |-> "functionCall", text |-> <<>>, name |-> name,
     hasFilePaths |-> hasFilePaths, filePaths |-> filePaths, results |-> <<>>]

ResponsePart(name, results) ==
    [kind |-> "functionResponse", text |-> <<>>, name |-> name,
     hasFilePaths |-> FALSE, filePaths |-> <<>>, results |-> results]

\* hasParts is FALSE for a content object without a parts array
Message(role, parts) == [role |-> role, hasParts |-> TRUE, parts |-> parts]
NoPartsMessage(role) == [role |-> role, hasParts |-> FALSE, parts |-> <<>>]

NoContent == NoPartsMessage("none")

(***************************************************************************)
(* The repositories the caller may hand in.  The first is the metadata of  *)
(* the spec's scenario A.                                                  *)
(***************************************************************************)
Repositories ==
    { [full_name |-> <<"acme/widget">>, name |-> <<"widget">>,
       description |-> <<"A widget">>, language |-> <<>>,
       stargazers_count |-> 10, forks_count |-> 0, open_issues_count |-> 0,
       topics |-> <<>>,
       dirContents |-> <<[path |-> "README.md", type |-> "file", size |-> 12]>>,
       languages |-> <<>>, contributors |-> 0],
      [full_name |-> <<"octo/app">>, name |-> <<"app">>,
       description |-> <<>>, language |-> <<"TypeScript">>,
       stargazers_count |-> 0, forks_count |-> 2, open_issues_count |-> 5,
       topics |-> << <<"ai">>, <<"nextjs">> >>,
       dirContents |-> <<[path |-> "src", type |-> "dir", size |-> 0],
                         [path |-> "README.md", type |-> "file", size |-> 7]>>,
       languages |-> << <<"TypeScript">> >>, contributors |-> 3] }

(***************************************************************************)
(* Prompt building.                                                        *)
(***************************************************************************)
\* repoInfoForPrompt of generateRepoSummary (lines 107-120)
RepoInfoForPrompt(repo) ==
    [name |-> repo.full_name,
     description |-> repo.description,
     primaryLanguage |-> repo.language,
     stars |-> repo.stargazers_count,
     forks |-> repo.forks_count,
     openIssues |-> repo.open_issues_count,
     topics |-> repo.topics,
     availableFiles |-> SliceFirst(repo.dirContents, 50),
     detectedLanguages |-> SliceFirst(repo.languages, 5),
     contributorsCount |-> repo.contributors]

\* JSON.stringify of strings, arrays and the file entries (escaping and
\* indentation are not modelled: the modelled metadata needs none)
JsonString(s) == <<"\"">> \o s \o <<"\"">>

JsonArray(items) == <<"[">> \o Join(items, <<", ">>) \o <<"]">>

JsonFile(f) ==
    <<"{\"path\": \"", f.path, "\", \"type\": \"", f.type, "\", \"size\": ">>
        \o NumToStr(f.size) \o <<"}">>

JsonRepoInfo(info) ==
    <<"{\"name\": ">> \o JsonString(info.name)
    \o <<", \"description\": ">> \o JsonString(info.description)
    \o <<", \"primaryLanguage\": ">> \o JsonString(info.primaryLanguage)
    \o <<", \"stars\": ">> \o NumToStr(info.stars)
    \o <<", \"forks\": ">> \o NumToStr(info.forks)
    \o <<", \"openIssues\": ">> \o NumToStr(info.openIssues)
    \o <<", \"topics\": ">>
    \o JsonArray([i \in 1..Len(info.topics) |-> JsonString(info.topics[i])])
    \o <<", \"availableFiles\": ">>
    \o JsonArray([i \in 1..Len(info.availableFiles) |->
                    JsonFile(info.availableFiles[i])])
    \o <<", \"detectedLanguages\": ">>
    \o JsonArray([i \in 1..Len(info.detectedLanguages) |->
                    JsonString(info.detectedLanguages[i])])
    \o <<", \"contributorsCount\": ">> \o NumToStr(info.contributorsCount)
    \o <<"}">>

\* initialPrompt of generateRepoSummary (lines 122-136)
InitialPrompt(info) ==
    <<"\n", "You are CodeSense, an AI assistant specialized in analyzing GitHub repositories.",
      "\n", "Analyze this GitHub repository information:", "\n">>
    \o JsonRepoInfo(info)
    \o <<"\n", "Your task is to provide a comprehensive summary. If needed, use the 'get_file_content' function to inspect up to ">>
    \o NumToStr(MAX_FILES_TO_BROWSE)
    \o <<" key files to deepen your analysis.", "\n",
         "Your final analysis should be in Markdown format and include: (five sections)",
         "\n", "Keep it factual, detailed, and developer-focused.", "\n">>

\* repoContext of getChatResponse (lines 228-234)
RepoContext(repo) ==
    [name |-> repo.full_name,
     description |-> repo.description,
     primaryLanguage |-> repo.language,
     availableFiles |-> SliceFirst(repo.dirContents, 30),
     detectedLanguages |-> SliceFirst(repo.languages, 5)]

\* systemInstruction of getChatResponse (lines 236-247)
SystemInstruction(ctx) ==
    LET keyFiles == SliceFirst(ctx.availableFiles, 5)
        keyPaths == Join([i \in 1..Len(keyFiles) |-> <<keyFiles[i].path>>], <<", ">>)
    IN  <<"\n", "You are CodeSense, an AI assistant helping a developer with the GitHub repository: ">>
        \o ctx.name
        \o <<".", "\n", "Repository Context (abbreviated):", "\n", "Name: ">>
        \o ctx.name
        \o <<"\n", "Description: ">> \o OrElse(ctx.description, <<"N/A">>)
        \o <<"\n", "Primary Language: ">> \o OrElse(ctx.primaryLanguage, <<"N/A">>)
        \o <<"\n", "Key Files (first few): ">> \o OrElse(keyPaths, <<"N/A">>)
        \o <<"\n", "The user will ask questions. Review the CHAT HISTORY and the current QUESTION.",
             "\n", "If necessary to answer, use the 'get_file_content' function to inspect up to ">>
        \o NumToStr(MAX_FILES_TO_BROWSE)
        \o <<" files.", "\n", "Be concise and helpful.", "\n">>

AckText == <<"Understood. I'm ready to help with this repository. What's your question?">>

\* the conversation of getChatResponse without the acknowledgment
ChatConversation_NoAck(repo, history, question) ==
    << Message("user", <<TextPart(SystemInstruction(RepoContext(repo)))>>) >>
    \o SliceLast(history, MAX_CHAT_HISTORY_MESSAGES * 2)
    \o << Message("user", <<TextPart(<<"QUESTION: ">> \o question)>>) >>

\* the conversation getChatResponse starts from (lines 250-255)
ChatConversation(repo, history, question) ==
    << Message("user", <<TextPart(SystemInstruction(RepoContext(repo)))>>),
       Message("model", <<TextPart(AckText)>>) >>
    \o SliceLast(history, MAX_CHAT_HISTORY_MESSAGES * 2)
    \o << Message("user", <<TextPart(<<"QUESTION: ">> \o question)>>) >>

\* the conversation generateRepoSummary starts from (line 138)
SummaryConversation(repo) ==
    << Message("user", <<TextPart(InitialPrompt(RepoInfoForPrompt(repo)))>>) >>

(***************************************************************************)
(* GeminiResponse: error is optional; hasError says whether it is set.     *)
(***************************************************************************)
Response(text) == [text |-> text, hasError |-> FALSE, error |-> <<>>]
\* a failure returned without its error field
ErrorResponse_NoError(text, error) == [text |-> text, hasError |-> FALSE, error |-> <<>>]
ErrorResponse(text, error) == [text |-> text, hasError |-> TRUE, error |-> error]
NoResponse == [text |-> <<>>, hasError |-> FALSE, error |-> <<"(pending)">>]

\* lines 105 and 226
KeyMissingResponse ==
    ErrorResponse(<<"Gemini API key not configured.">>, <<"API key missing">>)

\* summaryText of provideFallbackSummary before it is trimmed (lines 201-211)
FallbackText(repoInfo, reason) ==
            <<"\n", "# Repository Analysis: ">> \o OrElse(repoInfo.name, <<"N/A">>)
            \o <<"\n">>
            \o (IF reason # <<>>
                THEN <<"*Fallback triggered: ">> \o reason \o <<"*", "\n">>
                ELSE <<>>)
            \o <<"\n", "## Overview", "\n">>
            \o OrElse(repoInfo.description, <<"No description available.">>)
            \o <<"\n", "This is a ">>
            \o OrElse(repoInfo.primaryLanguage, <<"multi-language">>)
            \o <<" project.", "\n", "Stars: ">> \o NumToStr(repoInfo.stars)
            \o <<", Forks: ">> \o NumToStr(repoInfo.forks)
            \o <<", Open Issues: ">>
            \o (IF repoInfo.openIssues # 0
                THEN NumToStr(repoInfo.openIssues) ELSE <<"N/A">>)
            \o <<"\n", "Topics: ">>
            \o OrElse(Join(repoInfo.topics, <<", ">>), <<"N/A">>)
            \o <<"\n", "## Fallback Note", "\n",
                 "This is a basic summary based on metadata. For a more detailed AI analysis, please try again.",
                 "\n", " ", " ">>

\* provideFallbackSummary stamping the document with the number of the call
provideFallbackSummary_Stamped(repoInfo, reason) ==
    ErrorResponse(Trim(FallbackText(repoInfo, reason)
                       \o <<"Attempt ">> \o NumToStr(exchanges)),
                  <<"Used fallback summary">>
                  \o (IF reason # <<>> THEN <<": ">> \o reason ELSE <<>>))

\* provideFallbackSummary (lines 200-213)
provideFallbackSummary(repoInfo, reason) ==
    ErrorResponse(Trim(FallbackText(repoInfo, reason)),
                  <<"Used fallback summary">>
                  \o (IF reason # <<>> THEN <<": ">> \o reason ELSE <<>>))

(***************************************************************************)
(* The model backend.  An HTTP outcome is a rejected fetch (net =          *)
(* "rejected", message the error's message), a non-2xx answer (net =       *)
(* "status", message = errorData.error?.message, possibly empty) or a 2xx  *)
(* answer carrying candidates[0].content or none.                          *)
(***************************************************************************)
HttpOutcome(net, message, statusText, hasContent, content) ==
    [net |-> net, message |-> message, statusText |-> statusText,
     hasContent |-> hasContent, content |-> content]

FilePath(i) ==
    IF i = 1 THEN "README.md"
    ELSE IF i = 2 THEN "src/index.ts"
    ELSE IF i = 3 THEN "extra.ts"
    ELSE IF i = 4 THEN "ignored.ts"
    ELSE "more.ts"

PathList(len) == [i \in 1..len |-> FilePath(i)]

GetFiles(len) == CallPart("get_file_content", TRUE, PathList(len))
GetFilesNoPaths == CallPart("get_file_content", FALSE, <<>>)
OtherTool == CallPart("run_code", TRUE, PathList(1))
OkText == TextPart(<<" ", "o", "k">>)

\* The model messages the backend may answer with: text only (plain, blank,
\* split over parts), tool calls (one or two, recognized or not, with more
\* paths than MAX_FILES_TO_BROWSE, with none, without the argument), text
\* next to tool calls, and messages without parts.
ModelContents ==
    { NoPartsMessage("model") }
    \cup { Message("model", ps) : ps \in
            { <<>>,
              <<OkText>>,
              <<TextPart(<<" ">>)>>,
              <<TextPart(<<>>), TextPart(<<"o", "k", "\n">>), TextPart(<<"!">>)>>,
              <<GetFiles(1)>>,
              <<GetFiles(MaxPaths)>>,
              <<GetFiles(0)>>,
              <<OkText, GetFiles(1)>>,
              <<GetFiles(MaxPaths), GetFiles(1)>>,
              <<OtherTool>>,
              <<GetFilesNoPaths>>,
              <<OtherTool, GetFiles(1)>>,
              <<OkText, OtherTool>> } }

HttpOutcomes ==
    { HttpOutcome("rejected", <<"fetch failed">>, <<>>, FALSE, NoContent),
      HttpOutcome("status", <<"quota exceeded">>, <<"Too Many Requests">>,
                  FALSE, NoContent),
      HttpOutcome("status", <<>>, <<"Bad Gateway">>, FALSE, NoContent),
      HttpOutcome("ok", <<>>, <<"OK">>, FALSE, NoContent) }
    \cup { HttpOutcome("ok", <<>>, <<"OK">>, TRUE, c) : c \in ModelContents }

\* makeGeminiApiCall (lines 82-93): what the await yields for an HTTP outcome
makeGeminiApiCall(o) ==
    IF o.net = "rejected"
    THEN [threw |-> TRUE, message |-> o.message,
          hasContent |-> FALSE, content |-> NoContent]
    ELSE IF o.net = "status"
    THEN [threw |-> TRUE,
          message |-> <<"Gemini API Error: ">> \o OrElse(o.message, o.statusText),
          hasContent |-> FALSE, content |-> NoContent]
    ELSE [threw |-> FALSE, message |-> <<>>,
          hasContent |-> o.hasContent, content |-> o.content]

\* the request always sent with the tool declared
ApiCall_ToolsOn(contents, useFunctionCalling) ==
    [contents |-> contents, useFunctionCalling |-> TRUE]

\* the request makeGeminiApiCall sends (lines 69-86)
ApiCall(contents, useFunctionCalling) ==
    [contents |-> contents, useFunctionCalling |-> useFunctionCalling]

(***************************************************************************)
(* The data source, fetchFileContent (github.ts lines 130-216).  What      *)
(* GitHub answers is a record: raw is the outcome of the request for the   *)
(* raw content ("text": 2xx with a text content type and body text;        *)
(* "other": anything else answered; "throws": the request rejected), meta  *)
(* the outcome of the request for the metadata ("throws", "notOk", or a    *)
(* 2xx describing a directory, an empty file, a file over 1 MB, a file     *)
(* with base64 content text and a download_url, a file with a download_url *)
(* only, or a file with neither), download the outcome of the request to   *)
(* the download_url.  The value returned is a string or null; isNull tells *)
(* which.  Buffer exists on the server, so base64 content is decoded.      *)
(***************************************************************************)
FileTexts == { <<"l", "\n", "m">>, <<>> }

FetchEnvs ==
    [raw : {"text", "other", "throws"},
     meta : {"throws", "notOk", "notFile", "empty", "tooLarge", "base64",
             "url", "neither"},
     download : {"ok", "notOk", "throws"},
     text : FileTexts]

\* the return statement fetchFileContent leaves by
FetchBranch(env) ==
    IF env.raw = "throws" THEN "exception"
    ELSE IF env.raw = "text" THEN "raw"
    ELSE IF env.meta = "throws" THEN "exception"
    ELSE IF env.meta \in {"notOk", "notFile", "empty", "tooLarge"} THEN env.meta
    ELSE IF env.meta = "base64" /\ env.text # <<>> THEN "base64"
    ELSE IF env.meta \in {"base64", "url"}
    THEN (IF env.download = "throws" THEN "exception"
          ELSE IF env.download = "notOk" THEN "downloadNotOk"
          ELSE "download")
    ELSE "neither"

StringValue(s) == [isNull |-> FALSE, value |-> s]
NullValue == [isNull |-> TRUE, value |-> <<>>]

fetchFileContent(path, env) ==
    LET branch == FetchBranch(env)
    IN  IF branch \in {"raw", "base64", "download"}
        THEN StringValue(env.text)
        ELSE IF branch = "exception"
        THEN StringValue(<<"// Error: Exception occurred while fetching content for ",
                           path, ".">>)
        ELSE IF branch = "notOk"
        THEN StringValue(<<"// Error: Could not fetch metadata for file ", path,
                           ". Status: ", "404">>)
        ELSE IF branch = "notFile"
        THEN StringValue(<<"// Info: Path ", path, " is a ", "dir",
                           ", not a file. Cannot fetch content.">>)
        ELSE IF branch = "empty"
        THEN StringValue(<<"// Info: File ", path, " is empty.">>)
        ELSE IF branch = "tooLarge"
        THEN StringValue(<<"// Info: File content for ", path, " is too large (",
                           "2000000", " bytes / ", "1048576", " limit) to display.">>)
        ELSE IF branch = "downloadNotOk"
        THEN StringValue(<<"// Error: Could not download file content for ", path,
                           ". Status: ", "403">>)
        ELSE StringValue(<<"// Info: Could not retrieve content for ", path,
                           ". No direct content or download_url. Type: ", "file",
                           ", Size: ", "12">>)

\* the answers of GitHub met within an exchange: the file's text, an empty
\* text, a request that rejects, a path that does not exist
ExchangeFetchEnvs ==
    { [raw |-> "text", meta |-> "notOk", download |-> "ok", text |-> <<"l", "\n", "m">>],
      [raw |-> "text", meta |-> "notOk", download |-> "ok", text |-> <<>>],
      [raw |-> "throws", meta |-> "notOk", download |-> "ok", text |-> <<>>],
      [raw |-> "other", meta |-> "notOk", download |-> "ok", text |-> <<>>] }

(***************************************************************************)
(* The tool round (lines 150-186 and 267-303).                             *)
(***************************************************************************)
\* currentAiContent.parts?.filter(p => p.functionCall) || []
FunctionCallParts(content) ==
    IF content.hasParts
    THEN SelectSeq(content.parts, LAMBDA p : p.kind = "functionCall")
    ELSE <<>>

\* the tool call resolved whatever tool it names
Recognized_AnyName(part) == part.hasFilePaths

\* name === 'get_file_content' && args?.filePaths && Array.isArray(args.filePaths)
Recognized(part) == part.name = "get_file_content" /\ part.hasFilePaths

\* filesToFetch without the slice
FilesToFetch_Unclamped(part) == part.filePaths

\* args.filePaths.slice(0, MAX_FILES_TO_BROWSE)
FilesToFetch(part) == SliceFirst(part.filePaths, MAX_FILES_TO_BROWSE)

\* the second backend call made whether or not a tool response was built
SecondCallNeeded_Always(responses) == TRUE

\* if (toolResponses.length > 0): the tool message is appended and the
\* second backend call made (lines 177 and 294)
SecondCallNeeded(responses) == Len(responses) > 0

\* content ? ... : ... : null and the empty string are falsy
Truthy(content) == ~content.isNull /\ content.value # <<>>

\* the entry pushed to fetchedFileResults for one path (lines 163-167)
FileResult(filePath, content) ==
    [filePath |-> filePath,
     content |-> IF Truthy(content)
                 THEN truncateContent(content.value, MAX_FILE_CONTENT_LENGTH)
                 ELSE <<"// File not found or error fetching: ", filePath>>,
     status |-> IF Truthy(content) THEN "Success" ELSE "Error/Not Found"]

\* the part pushed to toolResponses left without the tool's name
ToolResponse_Unnamed(results) == ResponsePart("", results)

\* the part pushed to toolResponses for one resolved call (lines 169-174)
ToolResponse(results) == ResponsePart("get_file_content", results)

\* Runs the loop over functionCallParts from index i to its next await: a
\* recognized part with a path to fetch, or the end of the loop.
RECURSIVE NextStop(_, _, _)
NextStop(parts, i, responses) ==
    IF i > Len(parts)
    THEN [fetch |-> FALSE, partIdx |-> i, toolResponses |-> responses]
    ELSE IF ~Recognized(parts[i])
    THEN NextStop(parts, i + 1, responses)
    ELSE IF FilesToFetch(parts[i]) = <<>>
    THEN NextStop(parts, i + 1, Append(responses, ToolResponse(<<>>)))
    ELSE [fetch |-> TRUE, partIdx |-> i, toolResponses |-> responses]

(***************************************************************************)
(* The answer (lines 188-192 and 305-309) and the failure responses.       *)
(***************************************************************************)
\* parts?.map(p => p.text).join("") || "": a part without text joins as ""
RECURSIVE JoinTexts(_)
JoinTexts(parts) ==
    IF parts = <<>> THEN <<>>
    ELSE (IF Head(parts).kind = "text" THEN Head(parts).text ELSE <<>>)
            \o JoinTexts(Tail(parts))

AnswerText(content) == IF content.hasParts THEN JoinTexts(content.parts) ELSE <<>>

NoInitialResponse(k, repo) ==
    IF k = "summary"
    THEN provideFallbackSummary(RepoInfoForPrompt(repo),
            <<"No valid initial response from AI for summary.">>)
    ELSE ErrorResponse(
            <<"Sorry, I couldn't get an initial response from the AI for your chat message.">>,
            <<"No valid initial AI chat response.">>)

\* the summary path answering a missing final response with the chat apology
NoFinalResponse_Apology(k, repo) ==
    ErrorResponse(
        <<"Sorry, I couldn't get a final response from the AI after fetching files.">>,
        <<"No valid final AI chat response.">>)

NoFinalResponse(k, repo) ==
    IF k = "summary"
    THEN provideFallbackSummary(RepoInfoForPrompt(repo),
            <<"No valid final response from AI after file fetch for summary.">>)
    ELSE ErrorResponse(
            <<"Sorry, I couldn't get a final response from the AI after fetching files.">>,
            <<"No valid final AI chat response.">>)

\* the answer returned without the check for an empty text
EmptyAnswerResponse_Unchecked(k, repo) == Response(<<>>)

EmptyAnswerResponse(k, repo) ==
    IF k = "summary"
    THEN provideFallbackSummary(RepoInfoForPrompt(repo), <<"AI summary was empty.">>)
    ELSE ErrorResponse(<<"Sorry, I received an empty response from the AI.">>,
                       <<"AI response was empty.">>)

\* the chat catch block answering with the fallback document too
CaughtResponse_Fallback(k, repo, message) ==
    provideFallbackSummary(RepoInfoForPrompt(repo),
        <<"Error generating summary: ">> \o message)

\* the catch blocks (lines 194-197 and 311-314)
CaughtResponse(k, repo, message) ==
    IF k = "summary"
    THEN provideFallbackSummary(RepoInfoForPrompt(repo),
            <<"Error generating summary: ">> \o message)
    ELSE ErrorResponse(<<"Sorry, an error occurred: ">> \o message, message)

\* the answer taken from the first text part that is not empty, alone
Answer_FirstTextOnly(k, repo, content) ==
    LET texts == IF content.hasParts
                 THEN SelectSeq(content.parts,
                        LAMBDA p : p.kind = "text" /\ p.text # <<>>)
                 ELSE <<>>
        text == IF texts = <<>> THEN <<>> ELSE Trim(texts[1].text)
    IN  IF text = <<>> THEN EmptyAnswerResponse(k, repo) ELSE Response(text)

\* the chat answer trimmed only after the test for emptiness
Answer_ChatTrimsLate(k, repo, content) ==
    IF k = "chat" /\ AnswerText(content) # <<>>
    THEN Response(Trim(AnswerText(content)))
    ELSE IF Trim(AnswerText(content)) = <<>>
    THEN EmptyAnswerResponse(k, repo)
    ELSE Response(Trim(AnswerText(content)))

\* the answer checked for emptiness before it is trimmed
Answer_UntrimmedCheck(k, repo, content) ==
    IF AnswerText(content) = <<>>
    THEN EmptyAnswerResponse(k, repo)
    ELSE Response(Trim(AnswerText(content)))

Answer(k, repo, content) ==
    IF Trim(AnswerText(content)) = <<>>
    THEN EmptyAnswerResponse(k, repo)
    ELSE Response(Trim(AnswerText(content)))

(***************************************************************************)
(* One exchange: a call of generateRepoSummary or getChatResponse.  Each   *)
(* action runs the function from one await to the next.                    *)
(***************************************************************************)
Questions == { <<>>, <<"w", "h", "y", "?">> }

Histories ==
    { <<>>,
      << Message("user", <<TextPart(<<"h", "i">>)>>),
         Message("model", <<TextPart(<<"h", "e", "l", "l", "o">>)>>) >> }

IdleExchange ==
    /\ conversationHistory = <<>>
    /\ currentAiContent = NoContent
    /\ functionCallParts = <<>>
    /\ partIdx = 0
    /\ pathIdx = 0
    /\ fetchedFileResults = <<>>
    /\ toolResponses = <<>>
    /\ result = NoResponse
    /\ apiCalls = <<>>
    /\ fetchLog = <<>>
    /\ fetchOutcomes = <<>>
    /\ failure = "none"
    /\ caughtMessage = <<>>
    /\ cancelled = FALSE

\* the chat route has not answered
NoHttpResponse ==
    [status |-> 0, answer |-> <<>>, hasError |-> FALSE, error |-> <<>>]

\* no ChatWindow is mounted
IdleChatWindow ==
    /\ repository = ""
    /\ messages = <<>>
    /\ newMessage = <<>>
    /\ isBotTyping = FALSE
    /\ requests = <<>>
    /\ sendCount = 0
    /\ lastEvent = "none"

NoFileResult == [filePath |-> "", content |-> <<>>, status |-> "(pending)"]

NoFetchEnv == [raw |-> "none", meta |-> "none", download |-> "none", text |-> <<>>]

IdleFetch ==
    /\ ffPc = "idle"
    /\ ffPath = ""
    /\ ffEnv = NoFetchEnv
    /\ ffResult = NullValue
    /\ ffFileResult = NoFileResult

Init ==
    /\ kind \in {"summary", "chat"}
    /\ apiKeySet \in BOOLEAN
    /\ repoData \in Repositories
    /\ userQuestion \in (IF kind = "chat" THEN Questions ELSE {<<>>})
    /\ clientChatHistory \in (IF kind = "chat" THEN Histories ELSE {<<>>})
    /\ pc = "start"
    /\ IdleExchange
    /\ concurrent = <<>>
    /\ exchanges = 1
    /\ caughtSummaries = {}
    /\ httpResponse = NoHttpResponse
    /\ IdleChatWindow
    /\ tcPc = "idle"
    /\ tcContent = <<>>
    /\ tcMaxLength = 0
    /\ tcResult = <<>>
    /\ IdleFetch

\* the credential check left out
HasApiKey_Unchecked == TRUE

\* const apiKey = process.env.GEMINI_API_KEY; if (!apiKey) return ...
HasApiKey == apiKeySet

\* return resp; why names the return statement taken
ReturnAs(resp, why, message) ==
    /\ result' = resp
    /\ failure' = why
    /\ caughtMessage' = message
    /\ pc' = "done"

Pending == UNCHANGED <<result, failure, caughtMessage>>

Caught(message) ==
    ReturnAs(CaughtResponse(kind, repoData, message), "caught", message)

\* the answer taken from content, or the empty-answer failure
ReturnAnswer(content) ==
    ReturnAs(Answer(kind, repoData, content),
             IF Trim(AnswerText(content)) = <<>> THEN "empty" ELSE "none", <<>>)

\* Continues after the model message content was pushed to conv, with the
\* loop over parts at index i and the tool responses built so far: up to
\* the next fetch, the second backend call, or the answer.
Resume(conv, content, parts, i, responses) ==
    LET stop == NextStop(parts, i, responses)
    IN  /\ partIdx' = stop.partIdx
        /\ toolResponses' = stop.toolResponses
        /\ fetchedFileResults' = <<>>
        /\ IF stop.fetch
           THEN /\ pathIdx' = 1
                /\ fetchLog' = Append(fetchLog,
                        [partIdx |-> stop.partIdx,
                         filePath |-> FilesToFetch(parts[stop.partIdx])[1]])
                /\ pc' = "fetch"
                /\ conversationHistory' = conv
                /\ Pending
                /\ UNCHANGED apiCalls
           ELSE /\ pathIdx' = 0
                /\ UNCHANGED fetchLog
                /\ IF SecondCallNeeded(stop.toolResponses)
                   THEN /\ conversationHistory' =
                                Append(conv, Message("tool", stop.toolResponses))
                        /\ apiCalls' = Append(apiCalls,
                                ApiCall(conversationHistory', FALSE))
                        /\ pc' = "call2"
                        /\ Pending
                   ELSE /\ conversationHistory' = conv
                        /\ ReturnAnswer(content)
                        /\ UNCHANGED apiCalls

\* The call of generateRepoSummary / getChatResponse up to its first await
\* (lines 104-142 and 225-259).
Invoke ==
    /\ pc = "start"
    /\ IF ~HasApiKey
       THEN /\ ReturnAs(KeyMissingResponse, "key", <<>>)
            /\ UNCHANGED <<conversationHistory, apiCalls>>
       ELSE /\ conversationHistory' =
                    (IF kind = "summary"
                     THEN SummaryConversation(repoData)
                     ELSE ChatConversation(repoData, clientChatHistory, userQuestion))
            /\ apiCalls' = Append(apiCalls, ApiCall(conversationHistory', TRUE))
            /\ pc' = "call1"
            /\ Pending
    /\ UNCHANGED <<inputVars, currentAiContent, loopVars, fetchLog, callerVars,
                   tcVars, fetchOutcomes, ffVars, cancelled, concurrent>>

\* The first model message replacing the oldest message of the conversation
\* instead of being pushed after the last.
FirstCallReturns_Pruning ==
    /\ pc = "call1"
    /\ \E o \in HttpOutcomes :
        LET r == makeGeminiApiCall(o)
        IN  IF r.threw
            THEN /\ Caught(r.message)
                 /\ UNCHANGED <<conversationHistory, currentAiContent, loopVars,
                                apiCalls, fetchLog>>
            ELSE IF ~r.hasContent
            THEN /\ ReturnAs(NoInitialResponse(kind, repoData), "noInitial", <<>>)
                 /\ UNCHANGED <<conversationHistory, currentAiContent, loopVars,
                                apiCalls, fetchLog>>
            ELSE /\ currentAiContent' = r.content
                 /\ functionCallParts' = FunctionCallParts(r.content)
                 /\ Resume(Append(Tail(conversationHistory), r.content), r.content,
                           functionCallParts', 1, <<>>)
    /\ UNCHANGED <<inputVars, callerVars, tcVars, fetchOutcomes, ffVars, cancelled, concurrent>>

\* The first call tried once more when it throws.
FirstCallReturns_Retry ==
    /\ pc = "call1"
    /\ \E o \in HttpOutcomes :
        LET r == makeGeminiApiCall(o)
        IN  IF r.threw
            THEN /\ IF Len(apiCalls) < 2
                    THEN /\ apiCalls' = Append(apiCalls,
                                ApiCall(conversationHistory, TRUE))
                         /\ UNCHANGED pc
                         /\ Pending
                    ELSE /\ Caught(r.message)
                         /\ UNCHANGED apiCalls
                 /\ UNCHANGED <<conversationHistory, currentAiContent, loopVars,
                                fetchLog>>
            ELSE IF ~r.hasContent
            THEN /\ ReturnAs(NoInitialResponse(kind, repoData), "noInitial", <<>>)
                 /\ UNCHANGED <<conversationHistory, currentAiContent, loopVars,
                                apiCalls, fetchLog>>
            ELSE /\ currentAiContent' = r.content
                 /\ functionCallParts' = FunctionCallParts(r.content)
                 /\ Resume(Append(conversationHistory, r.content), r.content,
                           functionCallParts', 1, <<>>)
    /\ UNCHANGED <<inputVars, callerVars, tcVars, fetchOutcomes, ffVars, cancelled, concurrent>>

\* The first makeGeminiApiCall settles (lines 142-152, 177-192 and the catch).
FirstCallReturns ==
    /\ pc = "call1"
    /\ \E o \in HttpOutcomes :
        LET r == makeGeminiApiCall(o)
        IN  IF r.threw
            THEN /\ Caught(r.message)
                 /\ UNCHANGED <<conversationHistory, currentAiContent, loopVars,
                                apiCalls, fetchLog>>
            ELSE IF ~r.hasContent
            THEN /\ ReturnAs(NoInitialResponse(kind, repoData), "noInitial", <<>>)
                 /\ UNCHANGED <<conversationHistory, currentAiContent, loopVars,
                                apiCalls, fetchLog>>
            ELSE /\ currentAiContent' = r.content
                 /\ functionCallParts' = FunctionCallParts(r.content)
                 /\ Resume(Append(conversationHistory, r.content), r.content,
                           functionCallParts', 1, <<>>)
    /\ UNCHANGED <<inputVars, callerVars, tcVars, fetchOutcomes, ffVars, cancelled, concurrent>>

\* The tool response of a call built as soon as its first fetch settles,
\* without the outcomes of its other paths.
FetchReturns_FirstCompletion ==
    /\ pc = "fetch"
    /\ LET files == FilesToFetch(functionCallParts[partIdx])
           filePath == files[pathIdx]
       IN  \E env \in ExchangeFetchEnvs :
            LET content == fetchFileContent(filePath, env)
                results == Append(fetchedFileResults, FileResult(filePath, content))
            IN  /\ fetchOutcomes' = Append(fetchOutcomes, FetchBranch(env))
                /\ Resume(conversationHistory, currentAiContent,
                          functionCallParts, partIdx + 1,
                          Append(toolResponses, ToolResponse(results)))
                /\ UNCHANGED functionCallParts
    /\ UNCHANGED <<inputVars, currentAiContent, callerVars, tcVars, ffVars, cancelled, concurrent>>

\* One fetchFileContent settles (lines 161-176).
FetchReturns ==
    /\ pc = "fetch"
    /\ LET files == FilesToFetch(functionCallParts[partIdx])
           filePath == files[pathIdx]
       IN  \E env \in ExchangeFetchEnvs :
            LET content == fetchFileContent(filePath, env)
                results == Append(fetchedFileResults, FileResult(filePath, content))
            IN  /\ fetchOutcomes' = Append(fetchOutcomes, FetchBranch(env))
                /\ IF pathIdx < Len(files)
                   THEN /\ fetchedFileResults' = results
                        /\ pathIdx' = pathIdx + 1
                        /\ fetchLog' = Append(fetchLog,
                               [partIdx |-> partIdx, filePath |-> files[pathIdx + 1]])
                        /\ Pending
                        /\ UNCHANGED <<pc, conversationHistory, functionCallParts,
                                       partIdx, toolResponses, apiCalls>>
                   ELSE /\ Resume(conversationHistory, currentAiContent,
                                  functionCallParts, partIdx + 1,
                                  Append(toolResponses, ToolResponse(results)))
                        /\ UNCHANGED functionCallParts
    /\ UNCHANGED <<inputVars, currentAiContent, callerVars, tcVars, ffVars, cancelled, concurrent>>

\* The second call's tool calls honoured: the message is appended and the
\* backend called again.
SecondCallReturns_Chained ==
    /\ pc = "call2"
    /\ \E o \in HttpOutcomes :
        LET r == makeGeminiApiCall(o)
        IN  IF r.threw
            THEN /\ Caught(r.message)
                 /\ UNCHANGED <<currentAiContent, conversationHistory, apiCalls>>
            ELSE IF ~r.hasContent
            THEN /\ ReturnAs(NoFinalResponse(kind, repoData), "noFinal", <<>>)
                 /\ UNCHANGED <<currentAiContent, conversationHistory, apiCalls>>
            ELSE /\ currentAiContent' = r.content
                 /\ IF FunctionCallParts(r.content) # <<>>
                    THEN /\ conversationHistory' =
                                Append(conversationHistory, r.content)
                         /\ apiCalls' = Append(apiCalls,
                                ApiCall(conversationHistory', FALSE))
                         /\ pc' = "call2"
                         /\ Pending
                    ELSE /\ ReturnAnswer(r.content)
                         /\ UNCHANGED <<conversationHistory, apiCalls>>
    /\ UNCHANGED <<inputVars, loopVars, fetchLog, callerVars, tcVars,
                   fetchOutcomes, ffVars, cancelled, concurrent>>

\* The second call outside the try block: an error it throws rejects the
\* promise of the exchange, and no Response is returned.
SecondCallReturns_Uncaught ==
    /\ pc = "call2"
    /\ \E o \in HttpOutcomes :
        LET r == makeGeminiApiCall(o)
        IN  IF r.threw
            THEN /\ pc' = "rejected"
                 /\ Pending
                 /\ UNCHANGED currentAiContent
            ELSE IF ~r.hasContent
            THEN /\ ReturnAs(NoFinalResponse(kind, repoData), "noFinal", <<>>)
                 /\ UNCHANGED currentAiContent
            ELSE /\ currentAiContent' = r.content
                 /\ ReturnAnswer(r.content)
    /\ UNCHANGED <<inputVars, conversationHistory, loopVars, apiCalls, fetchLog,
                   callerVars, tcVars, fetchOutcomes, ffVars, cancelled, concurrent>>

\* The second makeGeminiApiCall settles (lines 180-192 and the catch).
SecondCallReturns ==
    /\ pc = "call2"
    /\ \E o \in HttpOutcomes :
        LET r == makeGeminiApiCall(o)
        IN  IF r.threw
            THEN /\ Caught(r.message)
                 /\ UNCHANGED currentAiContent
            ELSE IF ~r.hasContent
            THEN /\ ReturnAs(NoFinalResponse(kind, repoData), "noFinal", <<>>)
                 /\ UNCHANGED currentAiContent
            ELSE /\ currentAiContent' = r.content
                 /\ ReturnAnswer(r.content)
    /\ UNCHANGED <<inputVars, conversationHistory, loopVars, apiCalls, fetchLog,
                   callerVars, tcVars, fetchOutcomes, ffVars, cancelled, concurrent>>

\* The caller, having received the Response, calls again: a new page load
\* (app/api/analyze/route.ts line 26) or the next chat turn.  The
\* environment, and so the credential, stays as it is.
CallAgain ==
    /\ pc = "done"
    /\ exchanges < MaxExchanges
    /\ exchanges' = exchanges + 1
    /\ caughtSummaries' =
            (IF kind = "summary" /\ failure = "caught"
             THEN caughtSummaries \cup
                    {[repoData |-> repoData, message |-> caughtMessage,
                      text |-> result.text]}
             ELSE caughtSummaries)
    /\ kind' \in {"summary", "chat"}
    /\ repoData' \in Repositories
    /\ userQuestion' \in (IF kind' = "chat" THEN Questions ELSE {<<>>})
    /\ clientChatHistory' \in (IF kind' = "chat" THEN Histories ELSE {<<>>})
    /\ pc' = "start"
    /\ conversationHistory' = <<>>
    /\ currentAiContent' = NoContent
    /\ functionCallParts' = <<>>
    /\ partIdx' = 0
    /\ pathIdx' = 0
    /\ fetchedFileResults' = <<>>
    /\ toolResponses' = <<>>
    /\ result' = NoResponse
    /\ apiCalls' = <<>>
    /\ fetchLog' = <<>>
    /\ fetchOutcomes' = <<>>
    /\ failure' = "none"
    /\ caughtMessage' = <<>>
    /\ cancelled' = FALSE
    /\ UNCHANGED <<apiKeySet, tcVars, ffVars, concurrent, httpResponse, chatVars>>

Next ==
    \/ Invoke
    \/ FirstCallReturns
    \/ FetchReturns
    \/ SecondCallReturns
    \/ CallAgain

Spec == Init /\ [][Next]_vars

(***************************************************************************)
(* One exchange on its own, from the call to the Response.  The function   *)
(* runs to its next await as soon as it is called or resumed; SpecLive     *)
(* adds that every backend call and every fetch it awaits settles.         *)
(***************************************************************************)
\* the calls followed on their own: both functions, with and without the
\* credential, for the repository of scenario A and no prior history
InitExchange ==
    /\ Init
    /\ repoData.full_name = <<"acme/widget">>
    /\ clientChatHistory = <<>>

NextExchange ==
    \/ Invoke
    \/ FirstCallReturns
    \/ FetchReturns
    \/ SecondCallReturns

SpecLive ==
    /\ InitExchange
    /\ [][NextExchange]_vars
    /\ WF_vars(Invoke)
    /\ WF_vars(FirstCallReturns)
    /\ WF_vars(FetchReturns)
    /\ WF_vars(SecondCallReturns)

(***************************************************************************)
(* One exchange whose backend need not answer: the function runs when it   *)
(* is called and every fetch settles, but nothing is assumed of the        *)
(* backend.  makeGeminiApiCall gives its request no signal and no timer    *)
(* (lines 82-86), so no step of the exchange ends the wait for an answer.  *)
(***************************************************************************)
SpecNoAnswer ==
    /\ InitExchange
    /\ [][NextExchange]_vars
    /\ WF_vars(Invoke)
    /\ WF_vars(FetchReturns)

(***************************************************************************)
(* The caller's request is aborted while the exchange is in flight.  The   *)
(* route handlers receive the Request, and with it its abort signal, but   *)
(* hand neither function a signal, and makeGeminiApiCall and               *)
(* fetchFileContent give their requests none: nothing in the exchange      *)
(* reads the cancellation.                                                 *)
(***************************************************************************)
Cancel ==
    /\ pc \in {"call1", "fetch", "call2"}
    /\ ~cancelled
    /\ cancelled' = TRUE
    /\ UNCHANGED <<inputVars, pc, conversationHistory, currentAiContent,
                   loopVars, result, apiCalls, fetchLog, failure,
                   caughtMessage, callerVars, fetchOutcomes, tcVars, ffVars,
                   concurrent>>

NextCancel ==
    \/ Invoke
    \/ FirstCallReturns
    \/ FetchReturns
    \/ SecondCallReturns
    \/ Cancel

SpecCancel == InitExchange /\ [][NextCancel]_vars

(***************************************************************************)
(* The chat route: POST answers 400 to a request without question, 500 to  *)
(* a body it cannot read or when GitHub's data cannot be fetched, and      *)
(* otherwise calls getChatResponse and answers from its GeminiResponse.    *)
(***************************************************************************)
HttpAnswer(status, answer, hasError, error) ==
    [status |-> status, answer |-> answer, hasError |-> hasError, error |-> error]

\* every GeminiResponse with an error answered as a server error
RouteAnswer_ErrorIs500(geminiResult) ==
    IF geminiResult.hasError /\ geminiResult.error # <<>>
    THEN HttpAnswer(500, <<"An error occurred with the AI assistant.">>,
                    TRUE, geminiResult.error)
    ELSE HttpAnswer(200, geminiResult.text, FALSE, <<>>)

\* the answer built from geminiResult (chat route lines 86-95); an empty
\* string is falsy
RouteAnswer(geminiResult) ==
    IF geminiResult.hasError /\ geminiResult.error # <<>>
        /\ geminiResult.text # <<>>
    THEN HttpAnswer(200, geminiResult.text, TRUE, geminiResult.error)
    ELSE IF geminiResult.hasError /\ geminiResult.error # <<>>
    THEN HttpAnswer(500, <<"An error occurred with the AI assistant.">>,
                    TRUE, geminiResult.error)
    ELSE HttpAnswer(200, geminiResult.text, FALSE, <<>>)

\* the answers given before getChatResponse is called (lines 44-73 and
\* 97-103)
EarlyAnswer(why) ==
    IF why = "missing"
    THEN HttpAnswer(400, <<>>, TRUE, <<"Missing owner, repoName, or question">>)
    ELSE IF why = "github"
    THEN HttpAnswer(500,
            <<"I encountered an issue fetching data for ">>
                \o repoData.full_name
                \o <<" from GitHub: ", "Not Found",
                     ". Please ensure the repository exists and is accessible.">>,
            TRUE, <<"GitHub fetch error: ", "Not Found">>)
    ELSE HttpAnswer(500,
            <<"An internal server error occurred: ", "Unexpected end of JSON input">>,
            TRUE, <<"Internal server error: ", "Unexpected end of JSON input">>)

RouteReturnsEarly ==
    /\ pc = "start"
    /\ httpResponse = NoHttpResponse
    /\ \E why \in {"body", "missing", "github"} :
        /\ why = "missing" => userQuestion = <<>>
        /\ why = "github" => userQuestion # <<>>
        /\ httpResponse' = EarlyAnswer(why)
    /\ pc' = "idle"
    /\ UNCHANGED <<inputVars, conversationHistory, currentAiContent,
                   loopVars, result, apiCalls, fetchLog, failure,
                   caughtMessage, exchanges, caughtSummaries, chatVars,
                   fetchOutcomes, tcVars, ffVars, cancelled, concurrent>>

\* await getChatResponse(...) is reached with a question (lines 48, 77-84)
RouteCalls ==
    /\ userQuestion # <<>>
    /\ Invoke

\* getChatResponse has returned geminiResult (lines 86-95)
RouteAnswers ==
    /\ pc = "done"
    /\ httpResponse = NoHttpResponse
    /\ httpResponse' = RouteAnswer(result)
    /\ UNCHANGED <<inputVars, pc, conversationHistory, currentAiContent,
                   loopVars, result, apiCalls, fetchLog, failure,
                   caughtMessage, exchanges, caughtSummaries, chatVars,
                   fetchOutcomes, tcVars, ffVars, cancelled, concurrent>>

InitRoute ==
    /\ Init
    /\ kind = "chat"
    /\ repoData.full_name = <<"acme/widget">>

NextRoute ==
    \/ RouteReturnsEarly
    \/ RouteCalls
    \/ FirstCallReturns
    \/ FetchReturns
    \/ SecondCallReturns
    \/ RouteAnswers

SpecRoute == InitRoute /\ [][NextRoute]_vars

(***************************************************************************)
(* Exchanges side by side.  Each call of generateRepoSummary or            *)
(* getChatResponse has its own locals, kept in concurrent[e]; the calls    *)
(* are given the same repository, question and prior history (the same     *)
(* array object) and interleave at their awaits.  received logs the model  *)
(* messages the backend answered to the exchange.                          *)
(***************************************************************************)
ConcurrentOutcomes ==
    { HttpOutcome("rejected", <<"fetch failed">>, <<>>, FALSE, NoContent) }
    \cup { HttpOutcome("ok", <<>>, <<"OK">>, TRUE, Message("model", ps)) :
                ps \in { <<OkText>>, <<GetFiles(1)>>, <<OkText, GetFiles(1)>> } }

ConcurrentFetchEnvs ==
    { [raw |-> "text", meta |-> "notOk", download |-> "ok", text |-> <<"l", "\n", "m">>],
      [raw |-> "throws", meta |-> "notOk", download |-> "ok", text |-> <<>>] }

IdleConcurrent(k) ==
    [kind |-> k, pc |-> "start", conversationHistory |-> <<>>,
     currentAiContent |-> NoContent, functionCallParts |-> <<>>,
     partIdx |-> 0, pathIdx |-> 0, fetchedFileResults |-> <<>>,
     toolResponses |-> <<>>, result |-> NoResponse, received |-> <<>>]

\* conversationHistory as one array of the module, used by every call
ConversationOwner_Shared(e) == 1

\* let conversationHistory = [...] (lines 138 and 250): a local of the call
ConversationOwner(e) == e

ConversationOf(e) == concurrent[ConversationOwner(e)].conversationHistory

\* exchange e leaves its step with locals x and its conversation conv
Store(e, x, conv) ==
    /\ concurrent' =
            [[concurrent EXCEPT ![e] = x]
                EXCEPT ![ConversationOwner(e)].conversationHistory = conv]
    /\ UNCHANGED <<inputVars, pc, conversationHistory, currentAiContent,
                   loopVars, result, apiCalls, fetchLog, failure,
                   caughtMessage, callerVars, fetchOutcomes, tcVars, ffVars,
                   cancelled>>

\* as Resume, for exchange e
ConcurrentResume(e, x, conv, content, parts, i, responses) ==
    LET stop == NextStop(parts, i, responses)
        y == [x EXCEPT !.partIdx = stop.partIdx,
                       !.toolResponses = stop.toolResponses,
                       !.fetchedFileResults = <<>>]
    IN  IF stop.fetch
        THEN Store(e, [y EXCEPT !.pathIdx = 1, !.pc = "fetch"], conv)
        ELSE IF SecondCallNeeded(stop.toolResponses)
        THEN Store(e, [y EXCEPT !.pathIdx = 0, !.pc = "call2"],
                   Append(conv, Message("tool", stop.toolResponses)))
        ELSE Store(e, [y EXCEPT !.pathIdx = 0, !.pc = "done",
                               !.result = Answer(x.kind, repoData, content)],
                   conv)

ConcurrentInvoke(e) ==
    LET x == concurrent[e]
    IN  /\ x.pc = "start"
        /\ IF ~HasApiKey
           THEN Store(e, [x EXCEPT !.pc = "done", !.result = KeyMissingResponse],
                      ConversationOf(e))
           ELSE Store(e, [x EXCEPT !.pc = "call1"],
                      IF x.kind = "summary"
                      THEN SummaryConversation(repoData)
                      ELSE ChatConversation(repoData, clientChatHistory, userQuestion))

ConcurrentFirstCallReturns(e) ==
    LET x == concurrent[e]
    IN  /\ x.pc = "call1"
        /\ \E o \in ConcurrentOutcomes :
            LET r == makeGeminiApiCall(o)
            IN  IF r.threw
                THEN Store(e, [x EXCEPT !.pc = "done",
                                       !.result = CaughtResponse(x.kind, repoData, r.message)],
                           ConversationOf(e))
                ELSE IF ~r.hasContent
                THEN Store(e, [x EXCEPT !.pc = "done",
                                       !.result = NoInitialResponse(x.kind, repoData)],
                           ConversationOf(e))
                ELSE ConcurrentResume(e,
                        [x EXCEPT !.currentAiContent = r.content,
                                  !.functionCallParts = FunctionCallParts(r.content),
                                  !.received = Append(x.received, r.content)],
                        Append(ConversationOf(e), r.content), r.content,
                        FunctionCallParts(r.content), 1, <<>>)

ConcurrentFetchReturns(e) ==
    LET x == concurrent[e]
    IN  /\ x.pc = "fetch"
        /\ LET files == FilesToFetch(x.functionCallParts[x.partIdx])
               filePath == files[x.pathIdx]
           IN  \E env \in ConcurrentFetchEnvs :
                LET results == Append(x.fetchedFileResults,
                                      FileResult(filePath, fetchFileContent(filePath, env)))
                IN  IF x.pathIdx < Len(files)
                    THEN Store(e, [x EXCEPT !.fetchedFileResults = results,
                                           !.pathIdx = x.pathIdx + 1],
                               ConversationOf(e))
                    ELSE ConcurrentResume(e, x, ConversationOf(e),
                            x.currentAiContent, x.functionCallParts,
                            x.partIdx + 1,
                            Append(x.toolResponses, ToolResponse(results)))

ConcurrentSecondCallReturns(e) ==
    LET x == concurrent[e]
    IN  /\ x.pc = "call2"
        /\ \E o \in ConcurrentOutcomes :
            LET r == makeGeminiApiCall(o)
            IN  IF r.threw
                THEN Store(e, [x EXCEPT !.pc = "done",
                                       !.result = CaughtResponse(x.kind, repoData, r.message)],
                           ConversationOf(e))
                ELSE IF ~r.hasContent
                THEN Store(e, [x EXCEPT !.pc = "done",
                                       !.result = NoFinalResponse(x.kind, repoData)],
                           ConversationOf(e))
                ELSE Store(e, [x EXCEPT !.pc = "done",
                                       !.currentAiContent = r.content,
                                       !.received = Append(x.received, r.content),
                                       !.result = Answer(x.kind, repoData, r.content)],
                           ConversationOf(e))

InitConcurrent ==
    /\ concurrent \in [1..MaxConcurrent -> {IdleConcurrent(k) : k \in {"summary", "chat"}}]
    /\ kind = "chat"
    /\ apiKeySet \in BOOLEAN
    /\ repoData \in Repositories
    /\ repoData.full_name = <<"acme/widget">>
    /\ userQuestion = <<"w", "h", "y", "?">>
    /\ clientChatHistory \in Histories
    /\ pc = "idle"
    /\ IdleExchange
    /\ exchanges = 0
    /\ caughtSummaries = {}
    /\ httpResponse = NoHttpResponse
    /\ IdleChatWindow
    /\ tcPc = "idle"
    /\ tcContent = <<>>
    /\ tcMaxLength = 0
    /\ tcResult = <<>>
    /\ IdleFetch

NextConcurrent ==
    \/ \E e \in 1..MaxConcurrent : ConcurrentInvoke(e)
    \/ \E e \in 1..MaxConcurrent : ConcurrentFirstCallReturns(e)
    \/ \E e \in 1..MaxConcurrent : ConcurrentFetchReturns(e)
    \/ \E e \in 1..MaxConcurrent : ConcurrentSecondCallReturns(e)

SpecConcurrent == InitConcurrent /\ [][NextConcurrent]_vars

(***************************************************************************)
(* generateRepoSummary and getChatResponse side by side on the same        *)
(* repository, each given the same backend responses and the same fetch    *)
(* results at every await.  concurrent[1] holds the locals of the summary  *)
(* call and concurrent[2] those of the chat call, with the requests and    *)
(* fetches each has issued.                                                *)
(***************************************************************************)
PairLocals(k) ==
    [kind |-> k, pc |-> "start", conversationHistory |-> <<>>,
     currentAiContent |-> NoContent, functionCallParts |-> <<>>,
     partIdx |-> 0, pathIdx |-> 0, fetchedFileResults |-> <<>>,
     toolResponses |-> <<>>, result |-> NoResponse,
     apiCalls |-> <<>>, fetchLog |-> <<>>]

\* as Resume, on the locals x
PairResume(x, conv, content, parts, i, responses) ==
    LET stop == NextStop(parts, i, responses)
        y == [x EXCEPT !.partIdx = stop.partIdx,
                       !.toolResponses = stop.toolResponses,
                       !.fetchedFileResults = <<>>]
        withTool == Append(conv, Message("tool", stop.toolResponses))
    IN  IF stop.fetch
        THEN [y EXCEPT !.pathIdx = 1, !.pc = "fetch",
                       !.conversationHistory = conv,
                       !.fetchLog = Append(x.fetchLog,
                            [partIdx |-> stop.partIdx,
                             filePath |-> FilesToFetch(parts[stop.partIdx])[1]])]
        ELSE IF SecondCallNeeded(stop.toolResponses)
        THEN [y EXCEPT !.pathIdx = 0, !.pc = "call2",
                       !.conversationHistory = withTool,
                       !.apiCalls = Append(x.apiCalls, ApiCall(withTool, FALSE))]
        ELSE [y EXCEPT !.pathIdx = 0, !.pc = "done",
                       !.conversationHistory = conv,
                       !.result = Answer(x.kind, repoData, content)]

\* the call up to its first await (lines 104-142 and 225-259)
PairInvoked(x) ==
    IF ~HasApiKey
    THEN [x EXCEPT !.pc = "done", !.result = KeyMissingResponse]
    ELSE LET conv == IF x.kind = "summary"
                     THEN SummaryConversation(repoData)
                     ELSE ChatConversation(repoData, clientChatHistory, userQuestion)
         IN  [x EXCEPT !.pc = "call1", !.conversationHistory = conv,
                       !.apiCalls = <<ApiCall(conv, TRUE)>>]

\* from the first backend answer o to the next await (lines 142-180 and
\* 259-297)
PairFirstCall(x, o) ==
    LET r == makeGeminiApiCall(o)
    IN  IF r.threw
        THEN [x EXCEPT !.pc = "done",
                       !.result = CaughtResponse(x.kind, repoData, r.message)]
        ELSE IF ~r.hasContent
        THEN [x EXCEPT !.pc = "done",
                       !.result = NoInitialResponse(x.kind, repoData)]
        ELSE PairResume([x EXCEPT !.currentAiContent = r.content,
                                  !.functionCallParts = FunctionCallParts(r.content)],
                        Append(x.conversationHistory, r.content), r.content,
                        FunctionCallParts(r.content), 1, <<>>)

\* from one settled fetchFileContent to the next await (lines 161-180 and
\* 277-297)
PairFetched(x, env) ==
    LET files == FilesToFetch(x.functionCallParts[x.partIdx])
        filePath == files[x.pathIdx]
        results == Append(x.fetchedFileResults,
                          FileResult(filePath, fetchFileContent(filePath, env)))
    IN  IF x.pathIdx < Len(files)
        THEN [x EXCEPT !.fetchedFileResults = results,
                       !.pathIdx = x.pathIdx + 1,
                       !.fetchLog = Append(x.fetchLog,
                            [partIdx |-> x.partIdx,
                             filePath |-> files[x.pathIdx + 1]])]
        ELSE PairResume(x, x.conversationHistory, x.currentAiContent,
                        x.functionCallParts, x.partIdx + 1,
                        Append(x.toolResponses, ToolResponse(results)))

\* from the second backend answer o to the return (lines 180-197 and
\* 297-314)
PairSecondCall(x, o) ==
    LET r == makeGeminiApiCall(o)
    IN  IF r.threw
        THEN [x EXCEPT !.pc = "done",
                       !.result = CaughtResponse(x.kind, repoData, r.message)]
        ELSE IF ~r.hasContent
        THEN [x EXCEPT !.pc = "done",
                       !.result = NoFinalResponse(x.kind, repoData)]
        ELSE [x EXCEPT !.pc = "done", !.currentAiContent = r.content,
                       !.result = Answer(x.kind, repoData, r.content)]

PairUnchanged ==
    UNCHANGED <<inputVars, pc, conversationHistory, currentAiContent,
                loopVars, result, apiCalls, fetchLog, failure,
                caughtMessage, callerVars, fetchOutcomes, tcVars, ffVars,
                cancelled>>

PairAt(p) == \A e \in DOMAIN concurrent : concurrent[e].pc = p

PairInvoke ==
    /\ PairAt("start")
    /\ concurrent' = [e \in DOMAIN concurrent |-> PairInvoked(concurrent[e])]
    /\ PairUnchanged

PairFirstCallReturns ==
    /\ PairAt("call1")
    /\ \E o \in HttpOutcomes :
        concurrent' = [e \in DOMAIN concurrent |-> PairFirstCall(concurrent[e], o)]
    /\ PairUnchanged

PairFetchReturns ==
    /\ PairAt("fetch")
    /\ \E env \in ExchangeFetchEnvs :
        concurrent' = [e \in DOMAIN concurrent |-> PairFetched(concurrent[e], env)]
    /\ PairUnchanged

PairSecondCallReturns ==
    /\ PairAt("call2")
    /\ \E o \in HttpOutcomes :
        concurrent' = [e \in DOMAIN concurrent |-> PairSecondCall(concurrent[e], o)]
    /\ PairUnchanged

InitPair ==
    /\ concurrent = <<PairLocals("summary"), PairLocals("chat")>>
    /\ kind = "chat"
    /\ apiKeySet \in BOOLEAN
    /\ repoData \in Repositories
    /\ repoData.full_name = <<"acme/widget">>
    /\ userQuestion = <<"w", "h", "y", "?">>
    /\ clientChatHistory \in Histories
    /\ pc = "idle"
    /\ IdleExchange
    /\ exchanges = 0
    /\ caughtSummaries = {}
    /\ httpResponse = NoHttpResponse
    /\ IdleChatWindow
    /\ tcPc = "idle"
    /\ tcContent = <<>>
    /\ tcMaxLength = 0
    /\ tcResult = <<>>
    /\ IdleFetch

NextPair ==
    \/ PairInvoke
    \/ PairFirstCallReturns
    \/ PairFetchReturns
    \/ PairSecondCallReturns

SpecPair == InitPair /\ [][NextPair]_vars

(***************************************************************************)
(* ChatWindow (components/ChatWindow.tsx).  A message is kept with its     *)
(* sender and content; its id, a timestamp in the code, is 2n - 1 for the  *)
(* user message of the n-th accepted send, 2n for the bot message          *)
(* answering it, and 0 for the greeting.  React renders again after every  *)
(* handler, so a handler reads the state left by the one before it.        *)
(***************************************************************************)
WindowMessage(id, content, sender) ==
    [id |-> id, content |-> content, sender |-> sender]

\* the message the effect on repository sets (lines 32-43)
Greeting(repo) ==
    WindowMessage(0,
        <<"Hi! I'm CodeSense, your AI assistant for ">> \o repo.name
            \o <<". Ask me anything about this codebase!">>,
        "bot")

\* what the user may type
Inputs == { <<>>, <<" ">>, <<"w", "h", "y", "?">>, <<"h", "o", "w", "?">> }

\* how the request to /api/chat may settle: the fetch rejects, or the route
\* answers (200 with an answer, 200 with the apology of a failed exchange,
\* 500 when GitHub's data could not be fetched)
WindowOutcomes ==
    { [threw |-> TRUE, message |-> <<"Failed to fetch">>, response |-> NoHttpResponse] }
    \cup { [threw |-> FALSE, message |-> <<>>, response |-> a] :
            a \in { HttpAnswer(200, <<"It parses widgets.">>, FALSE, <<>>),
                    RouteAnswer(EmptyAnswerResponse("chat", repoData)),
                    EarlyAnswer("github") } }

\* the content of the bot message for a settled request (lines 85-108)
BotContent(o) ==
    IF o.threw
    THEN <<"Error: ">> \o o.message
    ELSE IF o.response.status \notin 200..299
    THEN <<"Error: ">>
            \o OrElse(o.response.error,
                    OrElse(o.response.answer,
                        <<"API Error: ">> \o NumToStr(o.response.status)))
    ELSE OrElse(o.response.answer, <<"Sorry, I couldn't get a valid response.">>)

\* transformClientHistoryToGemini (chat route lines 36-41)
transformClientHistoryToGemini(clientHistory) ==
    [i \in 1..Len(clientHistory) |->
        Message(IF clientHistory[i].sender = "user" THEN "user" ELSE "model",
                <<TextPart(clientHistory[i].content)>>)]

\* the conversation getChatResponse builds for a request of the window
RequestConversation(r) ==
    ChatConversation(r.repository,
                     transformClientHistoryToGemini(r.chatHistory), r.question)

RemoveAt(s, i) == SubSeq(s, 1, i - 1) \o SubSeq(s, i + 1, Len(s))

WindowUnchanged ==
    UNCHANGED <<inputVars, pc, conversationHistory, currentAiContent,
                loopVars, result, apiCalls, fetchLog, failure,
                caughtMessage, exchanges, caughtSummaries, httpResponse,
                fetchOutcomes, tcVars, ffVars, cancelled, concurrent>>

\* onChange of the input, which is disabled while isBotTyping (lines 204-211)
Type ==
    /\ ~isBotTyping
    /\ \E text \in Inputs :
        /\ text # newMessage
        /\ newMessage' = text
    /\ lastEvent' = "type"
    /\ UNCHANGED <<repository, messages, isBotTyping, requests, sendCount>>
    /\ WindowUnchanged

\* handleSendMessage with the history taken after the user message is added
Send_HistoryAfterAppend ==
    /\ IF Trim(newMessage) = <<>> \/ isBotTyping
       THEN /\ lastEvent' = "ignored"
            /\ UNCHANGED <<messages, newMessage, isBotTyping, requests, sendCount>>
       ELSE /\ sendCount < MaxSends
            /\ sendCount' = sendCount + 1
            /\ messages' = Append(messages,
                    WindowMessage(2 * sendCount' - 1, newMessage, "user"))
            /\ newMessage' = <<>>
            /\ isBotTyping' = TRUE
            /\ requests' = Append(requests,
                    [send |-> sendCount', question |-> newMessage,
                     chatHistory |-> messages', repository |-> repository])
            /\ lastEvent' = "accepted"
    /\ UNCHANGED repository
    /\ WindowUnchanged

\* handleSendMessage up to its await (lines 52-83)
Send ==
    /\ IF Trim(newMessage) = <<>> \/ isBotTyping
       THEN /\ lastEvent' = "ignored"
            /\ UNCHANGED <<messages, newMessage, isBotTyping, requests, sendCount>>
       ELSE /\ sendCount < MaxSends
            /\ sendCount' = sendCount + 1
            /\ messages' = Append(messages,
                    WindowMessage(2 * sendCount' - 1, newMessage, "user"))
            /\ newMessage' = <<>>
            /\ isBotTyping' = TRUE
            /\ requests' = Append(requests,
                    [send |-> sendCount', question |-> newMessage,
                     chatHistory |-> messages, repository |-> repository])
            /\ lastEvent' = "accepted"
    /\ UNCHANGED repository
    /\ WindowUnchanged

\* handleSendMessage without its finally block: isBotTyping reset only
\* after the answer was shown
Settle_NoFinally ==
    /\ \E i \in 1..Len(requests) :
        \E o \in WindowOutcomes :
            /\ messages' = Append(messages,
                    WindowMessage(2 * requests[i].send, BotContent(o), "bot"))
            /\ requests' = RemoveAt(requests, i)
            /\ isBotTyping' =
                    (IF o.threw \/ o.response.status \notin 200..299
                     THEN isBotTyping ELSE FALSE)
    /\ lastEvent' = "settled"
    /\ UNCHANGED <<repository, newMessage, sendCount>>
    /\ WindowUnchanged

\* handleSendMessage from its await to its end (lines 85-111)
Settle ==
    /\ \E i \in 1..Len(requests) :
        \E o \in WindowOutcomes :
            /\ messages' = Append(messages,
                    WindowMessage(2 * requests[i].send, BotContent(o), "bot"))
            /\ requests' = RemoveAt(requests, i)
    /\ isBotTyping' = FALSE
    /\ lastEvent' = "settled"
    /\ UNCHANGED <<repository, newMessage, sendCount>>
    /\ WindowUnchanged

\* the repository prop changes and the effect runs (lines 32-43)
RepositoryChanges ==
    /\ \E repo \in Repositories :
        /\ repo # repository
        /\ repository' = repo
        /\ messages' = <<Greeting(repo)>>
    /\ lastEvent' = "repository"
    /\ UNCHANGED <<newMessage, isBotTyping, requests, sendCount>>
    /\ WindowUnchanged

\* the window mounted for a repository, its first effect run
InitWindow ==
    /\ repository \in Repositories
    /\ messages = <<Greeting(repository)>>
    /\ newMessage = <<>>
    /\ isBotTyping = FALSE
    /\ requests = <<>>
    /\ sendCount = 0
    /\ lastEvent = "none"
    /\ httpResponse = NoHttpResponse
    /\ kind = "chat"
    /\ apiKeySet = TRUE
    /\ repoData = repository
    /\ userQuestion = <<>>
    /\ clientChatHistory = <<>>
    /\ pc = "idle"
    /\ IdleExchange
    /\ concurrent = <<>>
    /\ exchanges = 0
    /\ caughtSummaries = {}
    /\ tcPc = "idle"
    /\ tcContent = <<>>
    /\ tcMaxLength = 0
    /\ tcResult = <<>>
    /\ IdleFetch

NextWindow ==
    \/ Type
    \/ Send
    \/ Settle
    \/ RepositoryChanges

SpecWindow == InitWindow /\ [][NextWindow]_vars

(***************************************************************************)
(* Inputs of the truncation harness: contents of letters with at most      *)
(* MaxNewlines line breaks at any positions, and the values of maxLength   *)
(* around which truncateContent changes its behaviour: nothing, the length *)
(* of the marker (below it no room is left for the marker), twice that     *)
(* length (beyond it a line break can lie both after the midpoint and      *)
(* before the room kept for the marker), and the longest content.          *)
(***************************************************************************)
MkContent(len, nls) == [p \in 1..len |-> IF p \in nls THEN "\n" ELSE "a"]

MaxLengths ==
    LET m == Len(TRUNCATION_MESSAGE)
    IN  {0, 1, m - 1, m, m + 1, 2 * m, 2 * m + 2, MaxContentLen}

InitTruncate ==
    /\ tcPc = "input"
    /\ \E len \in 0..MaxContentLen :
        \E nls \in [1..MaxNewlines -> 0..len] :
            tcContent = MkContent(len, {nls[k] : k \in 1..MaxNewlines})
    /\ tcMaxLength \in MaxLengths
    /\ tcResult = <<>>
    /\ IdleFetch
    /\ kind = "summary"
    /\ apiKeySet = FALSE
    /\ repoData = CHOOSE r \in Repositories : TRUE
    /\ userQuestion = <<>>
    /\ clientChatHistory = <<>>
    /\ pc = "idle"
    /\ IdleExchange
    /\ concurrent = <<>>
    /\ exchanges = 0
    /\ caughtSummaries = {}
    /\ httpResponse = NoHttpResponse
    /\ IdleChatWindow

Truncate ==
    /\ tcPc = "input"
    /\ tcResult' = truncateContent(tcContent, tcMaxLength)
    /\ tcPc' = "truncated"
    /\ UNCHANGED <<tcContent, tcMaxLength>>
    /\ UNCHANGED <<inputVars, pc, conversationHistory, currentAiContent,
                   loopVars, result, apiCalls, fetchLog, failure,
                   caughtMessage, callerVars, fetchOutcomes, ffVars, cancelled, concurrent>>

NextTruncate == Truncate

SpecTruncate == InitTruncate /\ [][NextTruncate]_vars

(***************************************************************************)
(* getChatResponse called with prior histories of every length up to       *)
(* MaxHistory, beyond the 2 * MAX_CHAT_HISTORY_MESSAGES messages it keeps. *)
(* The chat route hands in the client's turns as text messages of role     *)
(* user or model (transformClientHistoryToGemini); turn i carries its      *)
(* number, so that a dropped, altered or displaced turn shows.             *)
(***************************************************************************)
ClientTurn(i, firstSender) ==
    Message(IF (i % 2 = 1) = (firstSender = "user") THEN "user" ELSE "model",
            <<TextPart(<<"turn ">> \o NumToStr(i))>>)

ClientHistory(len, firstSender) == [i \in 1..len |-> ClientTurn(i, firstSender)]

InitChat ==
    /\ kind = "chat"
    /\ apiKeySet \in BOOLEAN
    /\ repoData \in Repositories
    /\ userQuestion \in Questions
    /\ \E len \in 0..MaxHistory :
        \E firstSender \in {"user", "bot"} :
            clientChatHistory = ClientHistory(len, firstSender)
    /\ pc = "start"
    /\ IdleExchange
    /\ concurrent = <<>>
    /\ exchanges = 1
    /\ caughtSummaries = {}
    /\ httpResponse = NoHttpResponse
    /\ IdleChatWindow
    /\ tcPc = "idle"
    /\ tcContent = <<>>
    /\ tcMaxLength = 0
    /\ tcResult = <<>>
    /\ IdleFetch

NextChat == Invoke

SpecChat == InitChat /\ [][NextChat]_vars

(***************************************************************************)
(* fetchFileContent called alone, for every path of the model and every    *)
(* answer of GitHub.                                                       *)
(***************************************************************************)
InitFetch ==
    /\ ffPc = "call"
    /\ ffPath \in {FilePath(i) : i \in 1..MaxPaths}
    /\ ffEnv \in FetchEnvs
    /\ ffResult = NullValue
    /\ ffFileResult = NoFileResult
    /\ kind = "summary"
    /\ apiKeySet = FALSE
    /\ repoData = CHOOSE r \in Repositories : TRUE
    /\ userQuestion = <<>>
    /\ clientChatHistory = <<>>
    /\ pc = "idle"
    /\ IdleExchange
    /\ concurrent = <<>>
    /\ exchanges = 0
    /\ caughtSummaries = {}
    /\ httpResponse = NoHttpResponse
    /\ IdleChatWindow
    /\ tcPc = "idle"
    /\ tcContent = <<>>
    /\ tcMaxLength = 0
    /\ tcResult = <<>>

Fetch ==
    /\ ffPc = "call"
    /\ ffResult' = fetchFileContent(ffPath, ffEnv)
    /\ ffPc' = "returned"
    /\ UNCHANGED <<ffPath, ffEnv, ffFileResult>>
    /\ UNCHANGED <<inputVars, pc, conversationHistory, currentAiContent,
                   loopVars, result, apiCalls, fetchLog, failure,
                   caughtMessage, callerVars, fetchOutcomes, tcVars, cancelled,
                   concurrent>>

\* The caller's use of the value returned: the entry it records for the
\* path (gemini.ts lines 163-167 and 279-283).
Resolve ==
    /\ ffPc = "returned"
    /\ ffFileResult' = FileResult(ffPath, ffResult)
    /\ ffPc' = "resolved"
    /\ UNCHANGED <<ffPath, ffEnv, ffResult>>
    /\ UNCHANGED <<inputVars, pc, conversationHistory, currentAiContent,
                   loopVars, result, apiCalls, fetchLog, failure,
                   caughtMessage, callerVars, fetchOutcomes, tcVars, cancelled,
                   concurrent>>

NextFetch == Fetch \/ Resolve

SpecFetch == InitFetch /\ [][NextFetch]_vars

\* the per-path outcomes built so far in the tool round, in the order of
\* the fetches
RECURSIVE ResultsOf(_)
ResultsOf(responses) ==
    IF responses = <<>> THEN <<>>
    ELSE Head(responses).results \o ResultsOf(Tail(responses))

AllFileResults == ResultsOf(toolResponses) \o fetchedFileResults

(***************************************************************************)
(* Properties.                                                             *)
(***************************************************************************)
\* the conversation submitted on the first backend call, and the model
\* message appended after it
InitialConversation == apiCalls[1].contents
HasFirstModelMessage ==
    apiCalls # <<>> /\ Len(conversationHistory) > Len(InitialConversation)
FirstModelMessage == conversationHistory[Len(InitialConversation) + 1]

\* the paths fetched for the tool call at index i of functionCallParts
FetchedFor(i) ==
    LET es == SelectSeq(fetchLog, LAMBDA e : e.partIdx = i)
    IN  [j \in 1..Len(es) |-> es[j].filePath]

TextOnly(content) ==
    /\ content.hasParts
    /\ content.parts # <<>>
    /\ \A j \in 1..Len(content.parts) : content.parts[j].kind = "text"

HasToolMessage ==
    \E j \in 1..Len(conversationHistory) : conversationHistory[j].role = "tool"

\* C1: an exchange issues at most two backend calls; when the second call
\* settles the exchange ends at once, with no fetch, no further backend call
\* and no message appended, whatever the second response contains (tool_call
\* parts included): in the failure outcome if the call failed, carried no
\* content or its text parts are blank, and otherwise with the trimmed
\* concatenation of the second response's text parts as the answer.
C1_AtMostTwoBackendCalls ==
    /\ [](Len(apiCalls) <= 2)
    /\ [][pc = "call2" =>
            /\ pc' = "done"
            /\ apiCalls' = apiCalls
            /\ fetchLog' = fetchLog
            /\ conversationHistory' = conversationHistory
            /\ \/ failure' \in {"caught", "noFinal"} /\ result'.hasError
               \/ /\ failure' = "empty"
                  /\ Trim(JoinTexts(currentAiContent'.parts)) = <<>>
                  /\ result'.hasError
               \/ /\ failure' = "none"
                  /\ Trim(JoinTexts(currentAiContent'.parts)) # <<>>
                  /\ result' = Response(Trim(JoinTexts(currentAiContent'.parts)))
       ]_vars

\* C1 witness: the second response carried a tool call next to its text and
\* the exchange ended with that text after two backend calls and one fetch.
C1_Witness ==
    /\ pc = "done"
    /\ Len(apiCalls) = 2
    /\ Len(fetchLog) = 1
    /\ failure = "none"
    /\ FunctionCallParts(currentAiContent) # <<>>
    /\ result.text = <<"o", "k">>

\* C2: for a recognized tool call with more than MAX_FILES_TO_BROWSE paths,
\* the fetches issued for it are always the first paths of its list in
\* order, never more than MAX_FILES_TO_BROWSE, and exactly that many once
\* the tool round is over.
C2_ClampToFirstK ==
    \A i \in 1..Len(functionCallParts) :
        LET part == functionCallParts[i]
            fetched == FetchedFor(i)
        IN  (/\ part.name = "get_file_content"
             /\ part.hasFilePaths
             /\ Len(part.filePaths) > MAX_FILES_TO_BROWSE)
            => /\ Len(fetched) <= MAX_FILES_TO_BROWSE
               /\ fetched = SubSeq(part.filePaths, 1, Len(fetched))
               /\ (pc \in {"call2", "done"}
                    => Len(fetched) = MAX_FILES_TO_BROWSE)

\* C2 witness: scenario B, a call for four paths was resolved with three
\* fetches.
C2_Witness ==
    /\ pc = "done"
    /\ functionCallParts = <<GetFiles(MaxPaths)>>
    /\ FetchedFor(1) = <<"README.md", "src/index.ts", "extra.ts">>

\* C3: the number of paths fetched in one exchange never exceeds
\* MAX_FILES_TO_BROWSE.
C3_AtMostKFetchesPerRound == Len(fetchLog) <= MAX_FILES_TO_BROWSE

\* C4: every call returns a Response, and when it ends by the credential
\* check, a failed backend call, a response without content or an empty
\* model text, the text of that Response is a non-empty string.
C4_FailuresReturnText ==
    pc = "done" =>
        /\ result # NoResponse
        /\ failure \in {"none", "key", "caught", "noInitial", "noFinal", "empty"}
        /\ failure # "none" =>
            /\ result.text # <<>>
            /\ \E j \in 1..Len(result.text) : result.text[j] # ""

\* C4 witness: a summary whose model text was blank has been answered.
C4_Witness ==
    /\ pc = "done"
    /\ kind = "summary"
    /\ failure = "empty"
    /\ Len(apiCalls) = 2

\* C5: the length of truncateContent(s, M) is at most M for every s and M.
C5_TruncateWithinBound ==
    tcPc = "truncated" => Len(tcResult) <= tcMaxLength

\* C6: for M greater than the length of the truncation marker, truncating
\* the result of truncateContent(s, M) again with M returns it unchanged.
C6_TruncateIdempotent ==
    (tcPc = "truncated" /\ tcMaxLength > Len(TRUNCATION_MESSAGE))
        => truncateContent(tcResult, tcMaxLength) = tcResult

\* C6 witness: a content longer than M > marker length was cut at a line
\* break and given the marker.
C6_Witness ==
    /\ tcPc = "truncated"
    /\ tcMaxLength > Len(TRUNCATION_MESSAGE)
    /\ Len(tcContent) > tcMaxLength
    /\ Len(tcResult) < tcMaxLength
    /\ tcResult # tcContent

\* C7 (as stated): when the first response holds only text parts, the
\* exchange ends in Final with that text, without fetch or tool message and
\* after exactly one backend call.
C7_TextOnlyIsFinal ==
    (pc = "done" /\ HasFirstModelMessage /\ TextOnly(FirstModelMessage))
        => /\ failure = "none"
           /\ result = Response(Trim(JoinTexts(FirstModelMessage.parts)))
           /\ fetchLog = <<>>
           /\ ~HasToolMessage
           /\ Len(apiCalls) = 1

\* C7 (amended): when the first response holds only text parts, no fetch is
\* performed, no tool message is appended and exactly one backend call is
\* made; the exchange ends in Final with that text, trimmed, when the text is
\* not blank, and in the empty-answer failure when it is blank.
C7_TextOnlyOneCall ==
    (pc = "done" /\ HasFirstModelMessage /\ TextOnly(FirstModelMessage))
        => /\ fetchLog = <<>>
           /\ ~HasToolMessage
           /\ Len(apiCalls) = 1
           /\ IF Trim(JoinTexts(FirstModelMessage.parts)) # <<>>
              THEN /\ failure = "none"
                   /\ result = Response(Trim(JoinTexts(FirstModelMessage.parts)))
              ELSE /\ failure = "empty"
                   /\ result.hasError

\* C7 witness: a first response of text parts only has been answered with
\* its text.
C7_Witness ==
    /\ pc = "done"
    /\ HasFirstModelMessage
    /\ TextOnly(FirstModelMessage)
    /\ Len(FirstModelMessage.parts) = 3
    /\ result = Response(<<"o", "k", "\n", "!">>)

\* C8: without the credential the call returns at once with the fixed
\* notice and its error, having made no backend call and no fetch and
\* built no conversation.
C8_NoCredential ==
    (pc # "idle" /\ ~apiKeySet)
        => /\ pc \in {"start", "done"}
           /\ apiCalls = <<>>
           /\ fetchLog = <<>>
           /\ conversationHistory = <<>>
           /\ pc = "done" =>
                result = [text |-> <<"Gemini API key not configured.">>,
                          hasError |-> TRUE,
                          error |-> <<"API key missing">>]

\* C8 witness: a chat call without credential has returned.
C8_Witness ==
    /\ pc = "done"
    /\ ~apiKeySet
    /\ kind = "chat"
    /\ failure = "key"

\* C9: when a backend call of getChatResponse fails with message m, the
\* Response is {text: "Sorry, an error occurred: " + m, error: m}, not the
\* metadata fallback document.
C9_ChatApology ==
    (pc = "done" /\ kind = "chat" /\ failure = "caught")
        => /\ result = [text |-> <<"Sorry, an error occurred: ">> \o caughtMessage,
                        hasError |-> TRUE,
                        error |-> caughtMessage]
           /\ result.text[1] # "# Repository Analysis: "

\* C9 witness: the second backend call of a chat exchange failed with the
\* backend's own error message.
C9_Witness ==
    /\ pc = "done"
    /\ kind = "chat"
    /\ failure = "caught"
    /\ Len(apiCalls) = 2
    /\ caughtMessage = <<"Gemini API Error: ", "quota exceeded">>

C11_SummaryFailuresFallBack ==
    (pc = "done" /\ kind = "summary" /\ apiKeySet)
        => /\ result.hasError <=> failure # "none"
           /\ failure \in {"none", "caught", "noInitial", "noFinal", "empty"}
           /\ failure # "none" =>
                LET reason ==
                        IF failure = "caught"
                        THEN <<"Error generating summary: ">> \o caughtMessage
                        ELSE IF failure = "noInitial"
                        THEN <<"No valid initial response from AI for summary.">>
                        ELSE IF failure = "noFinal"
                        THEN <<"No valid final response from AI after file fetch for summary.">>
                        ELSE <<"AI summary was empty.">>
                    t == result.text
                    Has(sub) ==
                        \E i \in 0..(Len(t) - Len(sub)) :
                            SubSeq(t, i + 1, i + Len(sub)) = sub
                IN  /\ result.error = <<"Used fallback summary", ": ">> \o reason
                    /\ SubSeq(t, 1, 2) = <<"# Repository Analysis: ">> \o repoData.full_name
                    /\ Has(<<"*Fallback triggered: ">> \o reason \o <<"*", "\n">>)
                    /\ Has(<<"## Overview", "\n">>
                            \o (IF repoData.description # <<>>
                                THEN repoData.description
                                ELSE <<"No description available.">>)
                            \o <<"\n", "This is a ">>
                            \o (IF repoData.language # <<>>
                                THEN repoData.language
                                ELSE <<"multi-language">>)
                            \o <<" project.", "\n">>)
                    /\ Has(<<"Stars: ">> \o NumToStr(repoData.stargazers_count)
                            \o <<", Forks: ">> \o NumToStr(repoData.forks_count)
                            \o <<", Open Issues: ">>)
                    /\ Has(<<"\n", "Topics: ">>
                            \o (IF repoData.topics # <<>>
                                THEN Join(repoData.topics, <<", ">>)
                                ELSE <<"N/A">>))
                    /\ SubSeq(t, Len(t) - 2, Len(t)) =
                            <<"## Fallback Note", "\n",
                              "This is a basic summary based on metadata. For a more detailed AI analysis, please try again.">>

\* C11 witness: a summary whose second backend call, made after a fetch,
\* answered without content has returned the fallback document.
C11_Witness ==
    /\ pc = "done"
    /\ kind = "summary"
    /\ failure = "noFinal"
    /\ Len(fetchLog) = 1
    /\ result.text[1] = "# Repository Analysis: "


\* C12: when the backend call succeeded but the terminal model message (the
\* first one without a tool round, the second one after a tool round) holds
\* no text or only white space, the exchange ends failed with the kind of
\* Response a failed backend call gets on that path: on the summary path the
\* metadata fallback document, which differs from the one of a failed call
\* in nothing but the reason it quotes, and on the chat path a literal
\* apology with the error set.
C12_EmptyTextIsFailure ==
    (pc = "done" /\ apiKeySet /\ currentAiContent # NoContent
        /\ failure \notin {"caught", "noFinal"})
        => LET blank == Trim(AnswerText(currentAiContent)) = <<>>
               StripReason(t) ==
                    IF Len(t) > 3 /\ t[4] = "*Fallback triggered: "
                    THEN LET close == CHOOSE i \in 5..Len(t) :
                                        /\ t[i] = "*"
                                        /\ \A j \in 5..(i - 1) : t[j] # "*"
                         IN  SubSeq(t, 1, 3) \o SubSeq(t, close + 2, Len(t))
                    ELSE t
               failedCall == CaughtResponse(kind, repoData, <<"fetch failed">>)
           IN  /\ blank <=> failure = "empty"
               /\ blank =>
                    /\ result.hasError
                    /\ result.error # <<>>
                    /\ IF kind = "summary"
                       THEN /\ result.text[4] = "*Fallback triggered: "
                            /\ StripReason(result.text) = StripReason(failedCall.text)
                       ELSE /\ result.text =
                                <<"Sorry, I received an empty response from the AI.">>
                            /\ result.text[1] # "# Repository Analysis: "

\* C12 witness: after a tool round the second response held only white
\* space and the chat call returned its apology.
C12_Witness ==
    /\ pc = "done"
    /\ kind = "chat"
    /\ failure = "empty"
    /\ Len(apiCalls) = 2
    /\ currentAiContent = Message("model", <<TextPart(<<" ">>)>>)


\* C13 (as stated): whenever the first model message holds one or more
\* tool_call parts, whatever tool they name and whether or not they carry a
\* filePaths array, a tool message is appended and the second backend call
\* is made.
C13_ToolCallsEnterToolRound ==
    (pc = "done" /\ HasFirstModelMessage
        /\ FunctionCallParts(FirstModelMessage) # <<>>)
        => /\ HasToolMessage
           /\ Len(apiCalls) = 2

\* C13 (amended): when the first model message holds tool_call parts of
\* which at least one names get_file_content and carries a filePaths array,
\* a tool message is appended right after it and the second backend call is
\* made with the conversation ending in that tool message and tool calling
\* off; when none of its tool_call parts is such a call, nothing is fetched,
\* no tool message is appended, no second call is made and the exchange
\* ends with the text parts of that first message: trimmed as the answer,
\* or in the empty-answer failure when they are blank.
C13_RecognizedCallsEnterToolRound ==
    (pc \in {"call2", "done"} /\ HasFirstModelMessage
        /\ FunctionCallParts(FirstModelMessage) # <<>>)
        => LET calls == FunctionCallParts(FirstModelMessage)
               first == Len(InitialConversation) + 1
           IN  IF \E i \in 1..Len(calls) :
                    calls[i].name = "get_file_content" /\ calls[i].hasFilePaths
               THEN /\ Len(conversationHistory) = first + 1
                    /\ conversationHistory[first + 1].role = "tool"
                    /\ Len(apiCalls) = 2
                    /\ apiCalls[2] =
                            [contents |-> conversationHistory,
                             useFunctionCalling |-> FALSE]
               ELSE /\ pc = "done"
                    /\ fetchLog = <<>>
                    /\ ~HasToolMessage
                    /\ Len(apiCalls) = 1
                    /\ IF Trim(JoinTexts(FirstModelMessage.parts)) # <<>>
                       THEN result = Response(Trim(JoinTexts(FirstModelMessage.parts)))
                       ELSE failure = "empty" /\ result.hasError

\* C13 witness: the first model message asked for another tool next to its
\* text; the call was skipped and that text returned after one backend call.
C13_Witness ==
    /\ pc = "done"
    /\ HasFirstModelMessage
    /\ FirstModelMessage = Message("model", <<OkText, OtherTool>>)
    /\ Len(apiCalls) = 1
    /\ result = Response(<<"o", "k">>)


C15_ConversationShape ==
    conversationHistory # <<>>
        => /\ conversationHistory[1].role = "user"
           /\ \A j \in 1..Len(conversationHistory) :
                conversationHistory[j].role = "tool"
                    => /\ j > 1
                       /\ conversationHistory[j - 1].role = "model"
                       /\ conversationHistory[j - 1].hasParts
                       /\ \E p \in 1..Len(conversationHistory[j - 1].parts) :
                            conversationHistory[j - 1].parts[p].kind = "functionCall"
                       /\ j < Len(conversationHistory)
                            => conversationHistory[j + 1].role = "model"

\* C15 witness: a chat exchange with prior turns has gone through a tool
\* round, its tool message standing last in the conversation.
C15_Witness ==
    /\ pc = "done"
    /\ kind = "chat"
    /\ clientChatHistory # <<>>
    /\ Len(conversationHistory) = 7
    /\ conversationHistory[7].role = "tool"
    /\ conversationHistory[6].role = "model"


\* C16: for every question, the empty one included, and every prior
\* history, the empty one included, the conversation getChatResponse builds
\* and submits is: the system instruction as a user message, the canned
\* acknowledgment as a model message, prior turns only, and one last user
\* message wrapping the question literally; with an empty history it has
\* exactly three messages.
C16_ChatConversationShape ==
    (kind = "chat" /\ pc = "call1")
        => LET conv == conversationHistory
               n == Len(conv)
           IN  /\ apiCalls = <<[contents |-> conv, useFunctionCalling |-> TRUE]>>
               /\ n >= 3
               /\ conv[1].role = "user"
               /\ Len(conv[1].parts) = 1
               /\ conv[1].parts[1].kind = "text"
               /\ SubSeq(conv[1].parts[1].text, 1, 4)
                    = <<"\n", "You are CodeSense, an AI assistant helping a developer with the GitHub repository: ">>
                        \o repoData.full_name \o <<".">>
               /\ conv[2].role = "model"
               /\ Len(conv[2].parts) = 1
               /\ conv[2].parts[1].kind = "text"
               /\ conv[2].parts[1].text
                    = <<"Understood. I'm ready to help with this repository. What's your question?">>
               /\ conv[n].role = "user"
               /\ Len(conv[n].parts) = 1
               /\ conv[n].parts[1].kind = "text"
               /\ conv[n].parts[1].text = <<"QUESTION: ">> \o userQuestion
               /\ \A i \in 3..(n - 1) :
                    \E k \in 1..Len(clientChatHistory) : conv[i] = clientChatHistory[k]
               /\ clientChatHistory = <<>> => n = 3

\* C16 witness: the empty question asked with an empty history has been
\* submitted as a conversation of three messages.
C16_Witness ==
    /\ kind = "chat"
    /\ pc = "call1"
    /\ userQuestion = <<>>
    /\ clientChatHistory = <<>>
    /\ Len(conversationHistory) = 3
    /\ conversationHistory[3].parts[1].text = <<"QUESTION: ">>

\* C17: of a prior history of L messages the chat conversation keeps, between
\* the acknowledgment and the question, exactly the last
\* min(L, 2 * MAX_CHAT_HISTORY_MESSAGES) messages, unaltered and in their
\* order, and none of the older ones.
C17_HistoryTrimmedToLast2N ==
    (kind = "chat" /\ pc = "call1")
        => LET L == Len(clientChatHistory)
               kept == IF L <= 2 * MAX_CHAT_HISTORY_MESSAGES
                       THEN L ELSE 2 * MAX_CHAT_HISTORY_MESSAGES
               conv == conversationHistory
           IN  /\ Len(conv) = kept + 3
               /\ \A i \in 1..kept : conv[2 + i] = clientChatHistory[L - kept + i]

\* C17 witness: of a history two messages longer than the limit, the two
\* oldest turns were dropped and the third stands right after the
\* acknowledgment.
C17_Witness ==
    /\ kind = "chat"
    /\ pc = "call1"
    /\ Len(clientChatHistory) = 2 * MAX_CHAT_HISTORY_MESSAGES + 2
    /\ Len(conversationHistory) = 2 * MAX_CHAT_HISTORY_MESSAGES + 3
    /\ conversationHistory[3].parts[1].text = <<"turn ", "3">>


\* C18: a fetch that failed (the request rejected, the path not found) is
\* absorbed in the tool round: its outcome in the tool result has the error
\* status, and the round goes on to append the tool message and to make the
\* second backend call; the failed fetch is never what the catch block
\* caught.
C18_FetchFailureIsErrorOutcome ==
    /\ \A k \in 1..Len(fetchOutcomes) :
            fetchOutcomes[k] \in {"exception", "notOk", "downloadNotOk"}
                => /\ AllFileResults[k].status = "Error/Not Found"
                   /\ AllFileResults[k].filePath = fetchLog[k].filePath
    /\ (pc \in {"call2", "done"} /\ fetchLog # <<>>)
            => /\ HasToolMessage
               /\ Len(apiCalls) = 2
    /\ (pc = "done" /\ failure = "caught")
            => \E o \in HttpOutcomes : makeGeminiApiCall(o).message = caughtMessage

\* C19: fetchFileContent returns null whenever it did not retrieve the
\* file's content (path not found, not a file, file too large, request
\* failed), and a string only when it retrieved the content.
C19_NullUnlessRetrieved ==
    ffPc = "returned"
        => (ffResult.isNull <=> FetchBranch(ffEnv) \notin {"raw", "base64", "download"})


\* C20: failures are terminal and not retried.  After the first backend
\* call is issued, a further backend call or a fetch is only ever issued in
\* the tool round of a first response that came with content holding
\* tool_call parts, while nothing has failed; the step that finds a failure
\* (a call that threw, a response without content, a blank text) issues
\* nothing and returns the Response with its error set; a first call that
\* threw or came without content leaves the conversation as submitted, with
\* no fetch and that one call; and once failed, the exchange takes no
\* further step (the next step is the caller's next call).
C20_FailuresAreTerminal ==
    [][/\ ((apiCalls' # apiCalls \/ fetchLog' # fetchLog)
                /\ pc \notin {"start", "done"})
            => /\ pc \in {"call1", "fetch"}
               /\ pc' \in {"fetch", "call2"}
               /\ failure' = "none"
               /\ Len(conversationHistory') > Len(apiCalls[1].contents)
               /\ FunctionCallParts(
                        conversationHistory'[Len(apiCalls[1].contents) + 1]) # <<>>
       /\ (failure = "none" /\ failure' # "none")
            => /\ pc' = "done"
               /\ apiCalls' = apiCalls
               /\ fetchLog' = fetchLog
               /\ result'.hasError
       /\ (pc = "call1" /\ failure' \in {"caught", "noInitial"})
            => /\ Len(apiCalls') = 1
               /\ fetchLog' = <<>>
               /\ conversationHistory' = apiCalls[1].contents
       /\ (pc = "done" /\ failure # "none")
            => exchanges' = exchanges + 1
      ]_vars

\* C20 witness: the first backend call answered without content and the
\* exchange returned its failure after that one call, with no tool round.
C20_Witness ==
    /\ pc = "done"
    /\ failure = "noInitial"
    /\ Len(apiCalls) = 1
    /\ fetchLog = <<>>
    /\ conversationHistory = apiCalls[1].contents
    /\ result.hasError


\* C21: provided every backend call and every fetch settles, an exchange
\* that was called eventually ends, whatever the backend and GitHub answer,
\* with a Response handed to the caller; the Response, once returned, is
\* never replaced by another.
C21_EveryExchangeTerminates ==
    /\ (pc \in {"start", "call1", "fetch", "call2"})
            ~> (pc = "done" /\ result # NoResponse)
    /\ [][(pc = "done" => pc' = "done" /\ result' = result)
          /\ (pc # "done" => result = NoResponse)
          /\ (result' # result => pc' = "done")]_vars

\* C21 witness: an exchange that went through two backend calls and three
\* fetches has handed its answer to the caller.
C21_Witness ==
    /\ pc = "done"
    /\ Len(apiCalls) = 2
    /\ Len(fetchOutcomes) = MAX_FILES_TO_BROWSE
    /\ result # NoResponse
    /\ failure = "none"


\* C22: once the caller's request is cancelled while the exchange is in
\* flight, the exchange issues no further backend call and no further
\* fetch, and the Response it returns is a failure.
C22_CancelAbandonsExchange ==
    [][cancelled =>
            /\ apiCalls' = apiCalls
            /\ fetchLog' = fetchLog
            /\ (pc # "done" /\ pc' = "done") => result'.hasError
      ]_vars


\* C23: a backend call is bounded by a deadline: the wait for the answer of
\* a backend call always ends, and with it the exchange, even when the
\* backend never answers.
C23_BackendCallsHaveDeadline ==
    /\ (pc = "call1") ~> (pc # "call1")
    /\ (pc = "call2") ~> (pc = "done" /\ result # NoResponse)


\* C24: under every interleaving of exchanges, the conversation of each
\* exchange that has the credential holds nothing but its own messages: the
\* conversation built from its own inputs (for chat, the caller's prior
\* history unaltered between acknowledgment and question), then the first
\* model message the backend answered to that exchange, then the tool
\* message built from that exchange's own tool responses; and the prior
\* history supplied by the caller is never changed.
C24_ExchangesShareNoState ==
    /\ [](\A e \in DOMAIN concurrent :
            LET x == concurrent[e]
                conv == x.conversationHistory
                base == IF x.kind = "summary"
                        THEN SummaryConversation(repoData)
                        ELSE ChatConversation(repoData, clientChatHistory, userQuestion)
                n == Len(base)
            IN  IF x.pc = "start" \/ ~apiKeySet
                THEN conv = <<>>
                ELSE /\ SubSeq(conv, 1, n) = base
                     /\ Len(conv) = n + (IF x.received # <<>> THEN 1 ELSE 0)
                                      + (IF x.pc \in {"call2", "done"}
                                            /\ x.toolResponses # <<>> THEN 1 ELSE 0)
                     /\ Len(conv) > n => conv[n + 1] = x.received[1]
                     /\ Len(conv) > n + 1
                            => conv[n + 2] = Message("tool", x.toolResponses))
    /\ [][clientChatHistory' = clientChatHistory]_vars

\* C24 witness: a summary and a chat exchange given a prior history went
\* through their tool rounds side by side; the first has ended while the
\* second still waits for its second backend call.
C24_Witness ==
    /\ concurrent # <<>>
    /\ clientChatHistory # <<>>
    /\ concurrent[1].kind = "summary"
    /\ concurrent[1].pc = "done"
    /\ Len(concurrent[1].conversationHistory) = 3
    /\ concurrent[2].kind = "chat"
    /\ concurrent[2].pc = "call2"
    /\ Len(concurrent[2].conversationHistory) = 7


\* C25: the error of a returned Response is set exactly when the exchange
\* did not end with the model's answer: a Response carrying the terminal
\* model text (trimmed, not empty) has no error, and a Response of the
\* credential check, of a failed backend call, of a response without
\* content or of a blank text has an error that is a non-empty string next
\* to a text that is a non-empty string.
C25_ErrorIffFailure ==
    pc = "done"
        => LET NonEmpty(s) == \E j \in 1..Len(s) : s[j] # ""
           IN  /\ result.hasError <=> failure # "none"
               /\ failure = "none" <=>
                    (/\ apiKeySet
                     /\ caughtMessage = <<>>
                     /\ currentAiContent # NoContent
                     /\ Trim(AnswerText(currentAiContent)) # <<>>
                     /\ result.text = Trim(AnswerText(currentAiContent)))
               /\ ~result.hasError => result.error = <<>>
               /\ result.hasError => NonEmpty(result.error) /\ NonEmpty(result.text)

\* C25 witness: a first response without content was answered on the chat
\* path with a Response carrying an error.
C25_Witness ==
    /\ pc = "done"
    /\ kind = "chat"
    /\ failure = "noInitial"
    /\ result.hasError
    /\ result.error = <<"No valid initial AI chat response.">>

\* C26: the first backend call of an exchange is made with tool calling
\* enabled and the second with tool calling disabled; a call made with a
\* conversation holding a tool message never has tool calling enabled.
C26_ToolsOnThenOff ==
    /\ Len(apiCalls) >= 1 => apiCalls[1].useFunctionCalling
    /\ Len(apiCalls) >= 2 => ~apiCalls[2].useFunctionCalling
    /\ \A c \in 1..Len(apiCalls) :
            (\E j \in 1..Len(apiCalls[c].contents) :
                apiCalls[c].contents[j].role = "tool")
                => ~apiCalls[c].useFunctionCalling

\* C26 witness: the second backend call is in flight, sent with the tool
\* message and without the tool declared.
C26_Witness ==
    /\ pc = "call2"
    /\ Len(apiCalls) = 2
    /\ apiCalls[1].useFunctionCalling
    /\ ~apiCalls[2].useFunctionCalling
    /\ apiCalls[2].contents[Len(apiCalls[2].contents)].role = "tool"


\* C27: the conversation only grows by appending.  Every step of an
\* exchange leaves the messages already in the conversation as they are,
\* in their places; and the conversation submitted on the second backend
\* call is the one submitted on the first, followed by the first model
\* message and then the tool message, and nothing else.
C27_ConversationAppendOnly ==
    /\ [](Len(apiCalls) = 2
            => LET first == apiCalls[1].contents
                   second == apiCalls[2].contents
               IN  /\ Len(second) = Len(first) + 2
                   /\ SubSeq(second, 1, Len(first)) = first
                   /\ second[Len(first) + 1].role = "model"
                   /\ FunctionCallParts(second[Len(first) + 1]) = functionCallParts
                   /\ second[Len(first) + 2].role = "tool"
                   /\ second = conversationHistory)
    /\ [][pc' # "start"
            => /\ Len(conversationHistory') >= Len(conversationHistory)
               /\ SubSeq(conversationHistory', 1, Len(conversationHistory))
                    = conversationHistory]_vars

\* C27 witness: a chat conversation of five messages was submitted again
\* as seven, after a model message asking for two files next to its text.
C27_Witness ==
    /\ Len(apiCalls) = 2
    /\ kind = "chat"
    /\ Len(apiCalls[1].contents) = 5
    /\ Len(apiCalls[2].contents) = 7
    /\ apiCalls[2].contents[6] = Message("model", <<GetFiles(MaxPaths), GetFiles(1)>>)

\* C28: while a fetch of the tool round is outstanding the conversation
\* holds no tool message and no second backend call has been issued; the
\* tool message, once appended, holds an outcome for every path fetched in
\* the round and for every clamped path of every recognized call; and the
\* second backend call is only ever issued with the tool message already
\* the last message of the conversation it submits.
C28_FetchesBeforeToolMessage ==
    /\ pc = "fetch"
            => /\ Len(fetchLog) = Len(fetchOutcomes) + 1
               /\ ~HasToolMessage
               /\ Len(apiCalls) = 1
    /\ pc # "fetch" => Len(fetchLog) = Len(fetchOutcomes)
    /\ HasToolMessage
            => LET tool == conversationHistory[Len(conversationHistory)]
                   calls == SelectSeq(functionCallParts,
                                LAMBDA p : p.name = "get_file_content"
                                            /\ p.hasFilePaths)
               IN  /\ tool.role = "tool"
                   /\ Len(ResultsOf(tool.parts)) = Len(fetchLog)
                   /\ Len(tool.parts) = Len(calls)
                   /\ \A i \in 1..Len(calls) :
                        Len(tool.parts[i].results)
                            = Min(MAX_FILES_TO_BROWSE, Len(calls[i].filePaths))
    /\ Len(apiCalls) = 2
            => /\ HasToolMessage
               /\ apiCalls[2].contents = conversationHistory

\* C28 witness: the third fetch of a round is outstanding, two outcomes are
\* recorded, and neither tool message nor second call exists yet.
C28_Witness ==
    /\ pc = "fetch"
    /\ Len(fetchLog) = MAX_FILES_TO_BROWSE
    /\ Len(fetchedFileResults) = 2
    /\ ~HasToolMessage
    /\ Len(apiCalls) = 1


\* C29: for each clamped path the resolver records success with the
\* truncated content exactly when the fetcher returned a non-null result,
\* the empty string included, and records the not-found placeholder with
\* error status exactly when the fetcher returned null.
C29_SuccessIffNonNull ==
    ffPc = "resolved"
        => /\ (~ffResult.isNull)
                <=> (/\ ffFileResult.status = "Success"
                     /\ ffFileResult.content
                            = truncateContent(ffResult.value, MAX_FILE_CONTENT_LENGTH))
           /\ ffResult.isNull
                <=> (/\ ffFileResult.status = "Error/Not Found"
                     /\ ffFileResult.content
                            = <<"// File not found or error fetching: ", ffPath>>)


\* C30: a tool_call part whose name is not get_file_content is ignored,
\* whatever its arguments: no path is ever fetched for it, the tool message
\* holds one tool_result part per part named get_file_content that carries
\* paths and none for it, every tool_result part is named
\* get_file_content, and a model message all of whose tool_call parts bear
\* other names brings no fetch, no tool message and no second backend call.
C30_OtherToolsIgnored ==
    HasFirstModelMessage
        => LET calls == FunctionCallParts(FirstModelMessage)
               named == SelectSeq(calls,
                            LAMBDA p : p.name = "get_file_content"
                                        /\ p.hasFilePaths)
           IN  /\ \A i \in 1..Len(calls) :
                    calls[i].name # "get_file_content" => FetchedFor(i) = <<>>
               /\ \A e \in 1..Len(fetchLog) :
                    /\ fetchLog[e].partIdx \in 1..Len(calls)
                    /\ calls[fetchLog[e].partIdx].name = "get_file_content"
               /\ Len(toolResponses) <= Len(named)
               /\ \A j \in 1..Len(conversationHistory) :
                    conversationHistory[j].role = "tool"
                        => /\ Len(conversationHistory[j].parts) = Len(named)
                           /\ \A k \in 1..Len(named) :
                                conversationHistory[j].parts[k].name
                                    = "get_file_content"
               /\ (\A i \in 1..Len(calls) : calls[i].name # "get_file_content")
                    => /\ fetchLog = <<>>
                       /\ ~HasToolMessage
                       /\ Len(apiCalls) = 1

\* C30 witness: the model asked for run_code and then for get_file_content,
\* each with README.md; the exchange ended after one fetch, made for the
\* second part, and a tool message of one tool_result part.
C30_Witness ==
    /\ pc = "done"
    /\ HasFirstModelMessage
    /\ FirstModelMessage = Message("model", <<OtherTool, GetFiles(1)>>)
    /\ Len(fetchLog) = 1
    /\ fetchLog[1].partIdx = 2
    /\ HasToolMessage
    /\ Len(conversationHistory[Len(conversationHistory)].parts) = 1
    /\ Len(apiCalls) = 2


\* C31: on success the Response text is the concatenation, in order, of
\* all text parts of the terminal model message, trimmed of surrounding
\* whitespace, parts without text and empty text parts contributing
\* nothing; the terminal message is the second backend response when a
\* tool round took place and the first response otherwise.
C31_TextIsTrimmedConcatenation ==
    /\ [](( pc = "done" /\ failure = "none" /\ apiCalls # <<>>)
            => LET terminal == IF HasToolMessage THEN currentAiContent
                               ELSE FirstModelMessage
               IN  /\ HasToolMessage <=> Len(apiCalls) = 2
                   /\ terminal.hasParts
                   /\ result = Response(Trim(JoinTexts(terminal.parts)))
                   /\ result.text # <<>>
                   /\ ~IsWhitespace(result.text[1])
                   /\ ~IsWhitespace(result.text[Len(result.text)]))
    /\ [][(pc = "call2" /\ failure' = "none")
            => \E o \in HttpOutcomes :
                /\ o.hasContent
                /\ currentAiContent' = o.content
                /\ result' = Response(Trim(JoinTexts(o.content.parts)))]_vars

\* C31 witness: after a tool round the second response came as an empty
\* text part, "ok" with a line break and "!"; the answer is the three
\* joined.
C31_Witness ==
    /\ pc = "done"
    /\ failure = "none"
    /\ Len(apiCalls) = 2
    /\ HasToolMessage
    /\ currentAiContent = Message("model",
            <<TextPart(<<>>), TextPart(<<"o", "k", "\n">>), TextPart(<<"!">>)>>)
    /\ result = Response(<<"o", "k", "\n", "!">>)


C34_ErrorsAnsweredWith200 ==
    /\ pc = "done" => result.text # <<>>
    /\ (pc = "done" /\ httpResponse # NoHttpResponse /\ result.hasError)
            => /\ httpResponse.status = 200
               /\ httpResponse.answer = result.text
               /\ httpResponse.hasError
               /\ httpResponse.error = result.error
    /\ httpResponse.answer # <<"An error occurred with the AI assistant.">>
    /\ httpResponse.status = 500 => pc = "idle"

\* C34 witness: the second backend call of a chat request failed and the
\* route answered 200 with the apology of getChatResponse as answer.
C34_Witness ==
    /\ pc = "done"
    /\ failure = "caught"
    /\ Len(apiCalls) = 2
    /\ result.hasError
    /\ httpResponse.status = 200
    /\ httpResponse.hasError
    /\ httpResponse.answer = result.text


\* C35: ChatWindow has at most one chat request in flight.  isBotTyping is
\* true exactly while a request is in flight; a send while isBotTyping is
\* true or with a blank input changes nothing and issues no request; an
\* accepted send sets isBotTyping; and every settling of a request,
\* whether it was answered, answered with a non-OK status or threw, leaves
\* isBotTyping false.
C35_OneRequestInFlight ==
    /\ [](Len(requests) <= 1 /\ (isBotTyping <=> requests # <<>>))
    /\ [][(isBotTyping \/ Trim(newMessage) = <<>>)
            => /\ Len(requests') <= Len(requests)
               /\ sendCount' = sendCount
               /\ lastEvent' = "ignored"
                    => UNCHANGED <<messages, newMessage, isBotTyping,
                                   requests, repository>>]_vars
    /\ [][lastEvent' = "accepted"
            => /\ ~isBotTyping
               /\ isBotTyping'
               /\ Len(requests') = 1]_vars
    /\ [][Len(requests') < Len(requests)
            => /\ ~isBotTyping'
               /\ requests' = <<>>]_vars

\* C35 witness: a send arrived while the request of the first one was in
\* flight, and was ignored.
C35_Witness ==
    /\ lastEvent = "ignored"
    /\ isBotTyping
    /\ Len(requests) = 1
    /\ sendCount = 1
    /\ Len(messages) = 2

\* C36: every accepted send appends exactly one user message and every
\* settled request exactly one bot message; between repository changes the
\* message list only grows; and once every accepted send has completed the
\* list is the greeting followed by user/bot pairs in send order.
C36_GreetingPlusPairs ==
    /\ [][lastEvent' = "accepted"
            => /\ Len(messages') = Len(messages) + 1
               /\ SubSeq(messages', 1, Len(messages)) = messages
               /\ messages'[Len(messages')].sender = "user"]_vars
    /\ [][lastEvent' = "settled"
            => /\ Len(messages') = Len(messages) + 1
               /\ SubSeq(messages', 1, Len(messages)) = messages
               /\ messages'[Len(messages')].sender = "bot"]_vars
    /\ [][repository' = repository
            => /\ Len(messages') >= Len(messages)
               /\ SubSeq(messages', 1, Len(messages)) = messages]_vars
    /\ [](requests = <<>>
            => /\ Len(messages) % 2 = 1
               /\ messages[1] = Greeting(repository)
               /\ \A k \in 1..((Len(messages) - 1) \div 2) :
                    /\ messages[2 * k].sender = "user"
                    /\ messages[2 * k + 1].sender = "bot"
                    /\ messages[2 * k + 1].id = messages[2 * k].id + 1
                    /\ k > 1 => messages[2 * k].id > messages[2 * k - 1].id)

\* C37: the chatHistory sent with a question is the message list as it
\* was before the send: every message of it is older than the question's
\* own message, which it does not hold; so the conversation getChatResponse
\* builds for the request is the two opening messages, that history turned
\* into text messages, and the question once, as its last message.
C37_HistoryExcludesQuestion ==
    /\ [](\A k \in 1..Len(requests) :
            LET r == requests[k]
                conv == RequestConversation(r)
                asked == Message("user", <<TextPart(<<"QUESTION: ">> \o r.question)>>)
            IN  /\ \A j \in 1..Len(r.chatHistory) :
                        r.chatHistory[j].id < 2 * r.send - 1
                /\ Len(conv) = 2 + Len(r.chatHistory) + 1
                /\ conv[Len(conv)] = asked
                /\ \A j \in 1..(Len(conv) - 1) : conv[j] # asked
                /\ \A j \in 1..Len(r.chatHistory) :
                        conv[2 + j].parts = <<TextPart(r.chatHistory[j].content)>>)
    /\ [][lastEvent' = "accepted"
            => /\ requests'[Len(requests')].chatHistory = messages
               /\ requests'[Len(requests')].question = newMessage]_vars

\* C37 witness: the second question is in flight with the greeting and the
\* first question and its answer as history, in a conversation of six
\* messages.
C37_Witness ==
    /\ Len(requests) = 1
    /\ requests[1].send = 2
    /\ Len(requests[1].chatHistory) = 3
    /\ requests[1].chatHistory[2].content = requests[1].question
    /\ Len(RequestConversation(requests[1])) = 6

\* C38: every bot message other than the greeting is immediately preceded
\* in the message list by the user message whose request produced it,
\* under any interleaving of sends, completions and repository changes.
C38_ReplyFollowsItsQuestion ==
    \A i \in 1..Len(messages) :
        (messages[i].sender = "bot" /\ messages[i].id # 0)
            => /\ i > 1
               /\ messages[i - 1].sender = "user"
               /\ messages[i - 1].id = messages[i].id - 1

====
